---- MODULE Spec2Model ----
(***************************************************************************)
(* Schedule analysis of the personal planner (services/analysis.ts):       *)
(* conflict detection, density, warnings and free-slot discovery over a    *)
(* day's calendar events and the user's preferences; and the ordering of   *)
(* a daily checklist (sortItems of services/calendar.ts).                  *)
(*                                                                         *)
(* A Date is modelled by its whole minutes since the epoch (the inputs     *)
(* carry no sub-minute precision), and the process's local time zone is    *)
(* taken to be UTC, so "2025-06-09T09:00:00" is day 20248, 09:00.          *)
(***************************************************************************)
EXTENDS Integers, Sequences, FiniteSets, TLC

VARIABLES
    events,   \* the CalendarEvent[] handed to the next call
    prefs,    \* the UserPreferences handed to the next call
    date,     \* the date argument: a day, counted in days since the epoch
    eventsByDay,  \* the Map of dates to events handed to analyzeWeek, in insertion order
    items,        \* the ChecklistItem[] handed to sortItems
    areaPriority, \* the areaPriority argument of sortItems
    store,        \* the data directory: the checklist files and habits.json
    today,        \* the day todayDate() names
    uuidCounter,  \* the number of identifiers randomUUID() has handed out
    calls,        \* the checklist calls in flight, each with the checklist it read
    result    \* what the last call returned

vars == <<events, prefs, date, eventsByDay, items, areaPriority, store, today, uuidCounter, calls, result>>

-----------------------------------------------------------------------------
(* Bounds of the model *)

MaxEvents == 3
MaxScenarioEvents == 8

-----------------------------------------------------------------------------
(* Dates and strings *)

MinutesPerHour == 60
MinutesPerDay == 24 * MinutesPerHour

\* new Date(0)
Epoch == 0

Max(a, b) == IF a >= b THEN a ELSE b

\* The values a string-or-null field of an event marker can hold.
NoString == [kind |-> "absent"]
Garbage == [kind |-> "garbage"]
DateTime(day, h, m) == [kind |-> "dateTime", day |-> day, hour |-> h, minute |-> m]
DateOnly(day) == [kind |-> "date", day |-> day]

\* event.start / event.end: null, or an object with dateTime and date.
NullMarker == [isNull |-> TRUE]
Marker(dt, d) == [isNull |-> FALSE, dateTime |-> dt, date |-> d]

\* JavaScript truthiness of a string-or-null value.
Truthy(v) == v.kind # "absent"

\* new Date(raw) for a string: the instant, or an invalid Date (NaN).
ParseDate(raw) ==
    IF raw.kind = "dateTime"
    THEN [isNaN |-> FALSE,
          time |-> raw.day * MinutesPerDay + raw.hour * MinutesPerHour + raw.minute]
    ELSE IF raw.kind = "date"
    THEN [isNaN |-> FALSE, time |-> raw.day * MinutesPerDay]
    ELSE [isNaN |-> TRUE, time |-> 0]

\* Date.getHours(), Date.getMinutes(), Date.setHours(h, m, 0, 0)
GetHours(t) == (t % MinutesPerDay) \div MinutesPerHour
GetMinutes(t) == t % MinutesPerHour
SetHours(t, h, m) == (t - (t % MinutesPerDay)) + h * MinutesPerHour + m

\* Date.toISOString(): the fields of the instant, not the instant itself.
ToISOString(t) ==
    [day |-> t \div MinutesPerDay, hour |-> GetHours(t), minute |-> GetMinutes(t)]

\* new Date(date + "T00:00:00")
DayDate(d) == d * MinutesPerDay

Weekdays ==
    <<"sunday", "monday", "tuesday", "wednesday", "thursday", "friday", "saturday">>

\* toLocaleDateString("en-US", {weekday: "long"}).toLowerCase(); day 0 was a Thursday
DayName(t) == Weekdays[(((t \div MinutesPerDay) + 4) % 7) + 1]

\* [..].filter(Boolean) on a list of ids: null and "" are dropped
FilterBoolean(ids) == SelectSeq(ids, LAMBDA x : x # "")

-----------------------------------------------------------------------------
(* analysis.ts: helpers *)

DAY_START_HOUR == 7
DAY_END_HOUR == 21

getEventStart(event) ==
    LET raw == IF event.start.isNull THEN NoString
               ELSE IF Truthy(event.start.dateTime) THEN event.start.dateTime
               ELSE event.start.date
    IN  IF ~Truthy(raw) THEN Epoch
        ELSE LET d == ParseDate(raw) IN IF d.isNaN THEN Epoch ELSE d.time

getEventEnd(event) ==
    LET raw == IF event.end.isNull THEN NoString
               ELSE IF Truthy(event.end.dateTime) THEN event.end.dateTime
               ELSE event.end.date
    IN  IF ~Truthy(raw) THEN Epoch
        ELSE LET d == ParseDate(raw) IN IF d.isNaN THEN Epoch ELSE d.time

getEventDurationMinutes(event) == getEventEnd(event) - getEventStart(event)

\* "HH:MM", held as <<HH, MM>>
timeToMinutes(time) == time[1] * MinutesPerHour + time[2]

\* a slip: the end of a range belongs to it
InRangeClosed(minuteOfDay, range) ==
    /\ minuteOfDay >= timeToMinutes(range.start)
    /\ minuteOfDay <= timeToMinutes(range.end)

\* the range test of the three loops of getEnergyLevel
InRange(minuteOfDay, range) ==
    /\ minuteOfDay >= timeToMinutes(range.start)
    /\ minuteOfDay < timeToMinutes(range.end)

\* does the for loop over `ranges` return at some range?
RECURSIVE AnyRangeMatches(_, _)
AnyRangeMatches(minuteOfDay, ranges) ==
    IF ranges = <<>> THEN FALSE
    ELSE IF InRange(minuteOfDay, Head(ranges)) THEN TRUE
    ELSE AnyRangeMatches(minuteOfDay, Tail(ranges))

getEnergyLevel(minuteOfDay, p) ==
    IF AnyRangeMatches(minuteOfDay, p.energyPatterns.highEnergy) THEN "high"
    ELSE IF AnyRangeMatches(minuteOfDay, p.energyPatterns.mediumEnergy) THEN "medium"
    ELSE IF AnyRangeMatches(minuteOfDay, p.energyPatterns.lowEnergy) THEN "low"
    ELSE "medium"

MinuteOfDay(t) == GetHours(t) * MinutesPerHour + GetMinutes(t)

-----------------------------------------------------------------------------
(* analysis.ts: conflict detectors.  A Conflict is held without its free  *)
(* text (description, suggestedResolutions).                              *)

\* a slip: events that only touch count as overlapping
EventsOverlapTouching(a, b) ==
    /\ getEventStart(a) <= getEventEnd(b)
    /\ getEventStart(b) <= getEventEnd(a)

\* the test of the inner loop of detectOverlaps
EventsOverlap(a, b) ==
    /\ getEventStart(a) < getEventEnd(b)
    /\ getEventStart(b) < getEventEnd(a)

OverlapConflict(a, b) ==
    [type |-> "overlap",
     severity |-> "high",
     affectedEvents |-> FilterBoolean(<<a.id, b.id>>)]

\* the inner loop for (j = i + 1; j < events.length; j++), from j on
RECURSIVE OverlapsInner(_, _, _)
OverlapsInner(evs, i, j) ==
    IF j > Len(evs) THEN <<>>
    ELSE (IF EventsOverlap(evs[i], evs[j])
          THEN <<OverlapConflict(evs[i], evs[j])>>
          ELSE <<>>) \o OverlapsInner(evs, i, j + 1)

\* the outer loop for (i = 0; i < events.length; i++), from i on
RECURSIVE OverlapsOuter(_, _)
OverlapsOuter(evs, i) ==
    IF i > Len(evs) THEN <<>>
    ELSE OverlapsInner(evs, i, i + 1) \o OverlapsOuter(evs, i + 1)

detectOverlaps(evs) == OverlapsOuter(evs, 1)

EventIds(evs) == [i \in 1..Len(evs) |-> evs[i].id]

\* slips: high from max + 2 on; high from more than max + 1 on
OvercommitmentSeverityFromTwo(count, max) == IF count >= max + 2 THEN "high" ELSE "medium"
OvercommitmentSeverityOverOne(count, max) == IF count > max + 1 THEN "high" ELSE "medium"

OvercommitmentSeverity(count, max) == IF count > max + 2 THEN "high" ELSE "medium"

detectOvercommitment(evs, p) ==
    LET max == p.schedulingRules.maxMeetingsPerDay
    IN  IF Len(evs) > max
        THEN <<[type |-> "overcommitment",
                severity |-> OvercommitmentSeverity(Len(evs), max),
                affectedEvents |-> FilterBoolean(EventIds(evs))]>>
        ELSE <<>>

\* a slip: an event of exactly 60 minutes is skipped too
LongEnoughStrict(duration) == ~(duration <= 60)

\* the event survives the "if (duration < 60) continue" of detectEnergyMismatches
LongEnough(duration) == ~(duration < 60)

EnergyMismatchesOf(event, p) ==
    LET duration == getEventDurationMinutes(event)
        start == getEventStart(event)
        energy == getEnergyLevel(MinuteOfDay(start), p)
    IN  IF LongEnough(duration) /\ energy = "low"
        THEN <<[type |-> "energy_mismatch",
                severity |-> "medium",
                affectedEvents |-> FilterBoolean(<<event.id>>)]>>
        ELSE <<>>

RECURSIVE detectEnergyMismatches(_, _)
detectEnergyMismatches(evs, p) ==
    IF evs = <<>> THEN <<>>
    ELSE EnergyMismatchesOf(Head(evs), p) \o detectEnergyMismatches(Tail(evs), p)

-----------------------------------------------------------------------------
(* analysis.ts: density and warnings *)

\* events.reduce((sum, e) => sum + getEventDurationMinutes(e), 0)
RECURSIVE TotalMinutes(_)
TotalMinutes(evs) ==
    IF evs = <<>> THEN 0
    ELSE TotalMinutes(SubSeq(evs, 1, Len(evs) - 1)) + getEventDurationMinutes(evs[Len(evs)])

\* a slip: exactly 4, 6 and 8 hours stay in the lower band
DensityOfMinutesLowerBand(total) ==
    IF total <= 4 * MinutesPerHour THEN "light"
    ELSE IF total <= 6 * MinutesPerHour THEN "moderate"
    ELSE IF total <= 8 * MinutesPerHour THEN "heavy"
    ELSE "overloaded"

\* totalHours = minutes / 60 against the hour thresholds 4, 6 and 8
DensityOfMinutes(total) ==
    IF total < 4 * MinutesPerHour THEN "light"
    ELSE IF total < 6 * MinutesPerHour THEN "moderate"
    ELSE IF total < 8 * MinutesPerHour THEN "heavy"
    ELSE "overloaded"

calculateDensity(evs) == DensityOfMinutes(TotalMinutes(evs))

\* Array.prototype.sort by start (stable): place p after the entries starting no later
RECURSIVE InsertByStart(_, _)
InsertByStart(sorted, p) ==
    IF sorted = <<>> THEN <<p>>
    ELSE IF Head(sorted).start <= p.start
         THEN <<Head(sorted)>> \o InsertByStart(Tail(sorted), p)
         ELSE <<p>> \o sorted

RECURSIVE SortByStart(_)
SortByStart(s) ==
    IF s = <<>> THEN <<>>
    ELSE InsertByStart(SortByStart(SubSeq(s, 1, Len(s) - 1)), s[Len(s)])

EventSpans(evs) ==
    [i \in 1..Len(evs) |-> [start |-> getEventStart(evs[i]), end |-> getEventEnd(evs[i])]]

\* a slip: a gap of exactly the minimum break counts too
RECURSIVE BackToBackCountInclusive(_, _, _)
BackToBackCountInclusive(sorted, i, minBreak) ==
    IF i > Len(sorted) THEN 0
    ELSE LET gap == sorted[i].start - sorted[i - 1].end
         IN  (IF gap <= minBreak /\ gap >= 0 THEN 1 ELSE 0)
             + BackToBackCountInclusive(sorted, i + 1, minBreak)

\* the loop of generateWarnings over the sorted events, from index i on
RECURSIVE BackToBackCount(_, _, _)
BackToBackCount(sorted, i, minBreak) ==
    IF i > Len(sorted) THEN 0
    ELSE LET gap == sorted[i].start - sorted[i - 1].end
         IN  (IF gap < minBreak /\ gap >= 0 THEN 1 ELSE 0)
             + BackToBackCount(sorted, i + 1, minBreak)

\* the overload warning carries the total (the text shows it in hours, to one decimal)
generateWarnings(evs, p) ==
    LET minBreak == p.schedulingRules.minBreakBetweenEvents
        backToBackCount == BackToBackCount(SortByStart(EventSpans(evs)), 2, minBreak)
        total == TotalMinutes(evs)
    IN  (IF backToBackCount > 0
         THEN <<[kind |-> "back-to-back", count |-> backToBackCount, threshold |-> minBreak]>>
         ELSE <<>>)
        \o (IF total > 8 * MinutesPerHour
            THEN <<[kind |-> "overload", totalMinutes |-> total]>>
            ELSE <<>>)

-----------------------------------------------------------------------------
(* analysis.ts: life areas.  A text is held as the sequence of its          *)
(* characters, so that String.includes is a search and not an equality.     *)

\* the built-in keyword table, in the order Object.entries walks it
LIFE_AREA_KEYWORDS == <<
    [area |-> "work",
     keywords |-> <<
          <<"m", "e", "e", "t", "i", "n", "g">>, <<"s", "t", "a", "n", "d", "u", "p">>,
          <<"s", "y", "n", "c">>, <<"r", "e", "v", "i", "e", "w">>,
          <<"s", "p", "r", "i", "n", "t">>, <<"w", "o", "r", "k">>,
          <<"p", "r", "o", "j", "e", "c", "t">>,
          <<"d", "e", "a", "d", "l", "i", "n", "e">>,
          <<"p", "r", "e", "s", "e", "n", "t", "a", "t", "i", "o", "n">>,
          <<"i", "n", "t", "e", "r", "v", "i", "e", "w">>, <<"1", ":", "1">>,
          <<"o", "n", "e", "-", "o", "n", "-", "o", "n", "e">>,
          <<"p", "l", "a", "n", "n", "i", "n", "g">>, <<"r", "e", "t", "r", "o">>,
          <<"d", "e", "m", "o">>, <<"s", "c", "r", "u", "m">>,
          <<"k", "i", "c", "k", "o", "f", "f">> >>],
    [area |-> "fitness",
     keywords |-> <<
          <<"g", "y", "m">>, <<"w", "o", "r", "k", "o", "u", "t">>, <<"r", "u", "n">>,
          <<"r", "u", "n", "n", "i", "n", "g">>, <<"y", "o", "g", "a">>,
          <<"e", "x", "e", "r", "c", "i", "s", "e">>,
          <<"f", "i", "t", "n", "e", "s", "s">>, <<"s", "w", "i", "m">>,
          <<"c", "y", "c", "l", "i", "n", "g">>, <<"h", "i", "k", "e">>,
          <<"w", "a", "l", "k">>, <<"t", "r", "a", "i", "n", "i", "n", "g">>,
          <<"c", "r", "o", "s", "s", "f", "i", "t">>, <<"p", "i", "l", "a", "t", "e", "s">> >>],
    [area |-> "hobbies",
     keywords |-> <<
          <<"h", "o", "b", "b", "y">>, <<"p", "a", "i", "n", "t">>, <<"d", "r", "a", "w">>,
          <<"m", "u", "s", "i", "c">>, <<"g", "u", "i", "t", "a", "r">>,
          <<"p", "i", "a", "n", "o">>, <<"r", "e", "a", "d">>, <<"g", "a", "m", "e">>,
          <<"c", "r", "a", "f", "t">>, <<"c", "o", "o", "k">>,
          <<"p", "h", "o", "t", "o", "g", "r", "a", "p", "h", "y">>,
          <<"g", "a", "r", "d", "e", "n">> >>],
    [area |-> "personal",
     keywords |-> <<
          <<"d", "o", "c", "t", "o", "r">>, <<"d", "e", "n", "t", "i", "s", "t">>,
          <<"a", "p", "p", "o", "i", "n", "t", "m", "e", "n", "t">>,
          <<"e", "r", "r", "a", "n", "d">>, <<"h", "a", "i", "r", "c", "u", "t">>,
          <<"p", "h", "a", "r", "m", "a", "c", "y">>, <<"b", "a", "n", "k">>,
          <<"c", "l", "e", "a", "n", "i", "n", "g">>,
          <<"s", "h", "o", "p", "p", "i", "n", "g">>, <<"c", "h", "o", "r", "e">>,
          <<"t", "h", "e", "r", "a", "p", "i", "s", "t">>, <<"v", "e", "t">> >>],
    [area |-> "social",
     keywords |-> <<
          <<"d", "i", "n", "n", "e", "r">>,
          <<"l", "u", "n", "c", "h", " ", "w", "i", "t", "h">>,
          <<"c", "o", "f", "f", "e", "e", " ", "w", "i", "t", "h">>,
          <<"d", "r", "i", "n", "k", "s">>, <<"p", "a", "r", "t", "y">>,
          <<"h", "a", "n", "g", "o", "u", "t">>,
          <<"c", "a", "t", "c", "h", " ", "u", "p">>,
          <<"f", "r", "i", "e", "n", "d", "s">>, <<"f", "a", "m", "i", "l", "y">>,
          <<"d", "a", "t", "e", " ", "n", "i", "g", "h", "t">>,
          <<"b", "i", "r", "t", "h", "d", "a", "y">> >>] >>

UpperCaseLetters == <<"A", "B", "C", "D", "E", "F", "G", "H", "I", "J", "K", "L", "M", "N", "O", "P", "Q", "R", "S", "T", "U", "V", "W", "X", "Y", "Z">>
LowerCaseLetters == <<"a", "b", "c", "d", "e", "f", "g", "h", "i", "j", "k", "l", "m", "n", "o", "p", "q", "r", "s", "t", "u", "v", "w", "x", "y", "z">>

ToLowerChar(c) ==
    IF \E i \in DOMAIN UpperCaseLetters : UpperCaseLetters[i] = c
    THEN LowerCaseLetters[CHOOSE i \in DOMAIN UpperCaseLetters : UpperCaseLetters[i] = c]
    ELSE c

\* String.toLowerCase
ToLowerCase(text) == [i \in DOMAIN text |-> ToLowerChar(text[i])]

\* a slip: String.startsWith in place of String.includes
StartsWith(text, kw) ==
    /\ Len(kw) <= Len(text)
    /\ \A j \in 1..Len(kw) : text[j] = kw[j]

\* String.includes: kw occurs in text at some offset i
Includes(text, kw) ==
    \E i \in 0..(Len(text) - Len(kw)) : \A j \in 1..Len(kw) : text[i + j] = kw[j]

\* `${event.summary || ""} ${event.description || ""}`.toLowerCase()
EventText(event) == ToLowerCase(event.summary \o <<" ">> \o event.description)

\* categorizeEvent returns null
NoArea == ""

\* a slip: the loop does not return at the first match, the last match stands
RECURSIVE LastMatchingArea(_, _)
LastMatchingArea(text, table) ==
    IF table = <<>> THEN NoArea
    ELSE LET later == LastMatchingArea(text, Tail(table))
         IN  IF later # NoArea THEN later
             ELSE IF \E k \in DOMAIN Head(table).keywords :
                         Includes(text, Head(table).keywords[k])
                  THEN Head(table).area
                  ELSE NoArea

\* the loop of categorizeEvent over the entries of the table, from its head on
RECURSIVE FirstMatchingArea(_, _)
FirstMatchingArea(text, table) ==
    IF table = <<>> THEN NoArea
    ELSE IF \E k \in DOMAIN Head(table).keywords : Includes(text, Head(table).keywords[k])
         THEN Head(table).area
         ELSE FirstMatchingArea(text, Tail(table))

categorizeEvent(event) == FirstMatchingArea(EventText(event), LIFE_AREA_KEYWORDS)

\* a slip: every event counts for every area
MinutesPerAreaAll(evs, areas, area) ==
    LET F[k \in 0..Len(evs)] ==
            IF k = 0 THEN 0 ELSE F[k - 1] + getEventDurationMinutes(evs[k])
    IN  F[Len(evs)]

\* 60 * hoursPerArea[area], where areas[i] is the area of the i-th event
MinutesPerArea(evs, areas, area) ==
    LET F[k \in 0..Len(evs)] ==
            IF k = 0 THEN 0
            ELSE F[k - 1] + (IF areas[k] # NoArea /\ areas[k] = area
                             THEN getEventDurationMinutes(evs[k]) ELSE 0)
    IN  F[Len(evs)]

\* Hours are fractions: a duration in hours is minutes / 60, a target is a
\* number of the user's, held in hundredths of an hour (2.25 h is 225).  Both
\* are whole in six-hundredths of an hour.
HoursOfMinutes(minutes) == 10 * minutes
HoursOfTarget(hundredths) == 6 * hundredths

\* Math.round(hours * 10), halves rounded up, for hours in six-hundredths;
\* the value Math.round(hours * 10) / 10 is held in tenths of an hour
RoundToTenths(hours) == (hours + 30) \div 60

\* scheduledHours and delta are in tenths of an hour, targetHours as the target is held
calculateLifeAreaBreakdown(evs, p) ==
    LET areas == [k \in DOMAIN evs |-> categorizeEvent(evs[k])]
    IN  [i \in DOMAIN p.lifeAreas |->
            LET la == p.lifeAreas[i]
                hours == HoursOfMinutes(MinutesPerArea(evs, areas, la.name))
            IN  [area |-> la.name,
                 scheduledHours |-> RoundToTenths(hours),
                 targetHours |-> la.weeklyTargetHours,
                 delta |-> RoundToTenths(hours - HoursOfTarget(la.weeklyTargetHours))]]

-----------------------------------------------------------------------------
(* analysis.ts: findFreeSlots *)

NoFilter == ""

\* the first loop: the events that meet the window, clipped to it
RECURSIVE BusyOfEvents(_, _, _)
BusyOfEvents(evs, dayStart, dayEnd) ==
    IF evs = <<>> THEN <<>>
    ELSE LET eStart == getEventStart(Head(evs))
             eEnd == getEventEnd(Head(evs))
         IN  (IF eEnd > dayStart /\ eStart < dayEnd
              THEN <<[start |-> IF eStart < dayStart THEN dayStart ELSE eStart,
                      end |-> IF eEnd > dayEnd THEN dayEnd ELSE eEnd]>>
              ELSE <<>>) \o BusyOfEvents(Tail(evs), dayStart, dayEnd)

\* the busy period pushed for a protected block of the day
BlockPeriod(block, dayDate) ==
    [start |-> SetHours(dayDate, block.start[1], block.start[2]),
     end |-> SetHours(dayDate, block.end[1], block.end[2])]

\* the second loop: the protected blocks of the day's weekday
RECURSIVE BusyOfBlocks(_, _)
BusyOfBlocks(blocks, dayDate) ==
    IF blocks = <<>> THEN <<>>
    ELSE (IF Head(blocks).day = DayName(dayDate)
          THEN <<BlockPeriod(Head(blocks), dayDate)>>
          ELSE <<>>) \o BusyOfBlocks(Tail(blocks), dayDate)

\* the merge loop over the sorted busy periods
RECURSIVE MergeBusy(_, _)
MergeBusy(merged, busy) ==
    IF busy = <<>> THEN merged
    ELSE LET period == Head(busy)
             n == Len(merged)
         IN  IF n = 0 \/ period.start > merged[n].end
             THEN MergeBusy(Append(merged, period), Tail(busy))
             ELSE MergeBusy([merged EXCEPT ![n].end = Max(@, period.end)], Tail(busy))

\* a slip: the energy level is taken where the gap ends
SlotsOfGapEnergyAtEnd(from, to, p, minDuration, filterEnergy) ==
    LET duration == to - from
        energy == getEnergyLevel(MinuteOfDay(to), p)
    IN  IF duration >= minDuration /\ (filterEnergy = NoFilter \/ energy = filterEnergy)
        THEN <<[start |-> ToISOString(from),
                end |-> ToISOString(to),
                duration |-> duration,
                energyLevel |-> energy]>>
        ELSE <<>>

\* the slot pushed for the gap [from, to), when it passes both filters
SlotsOfGap(from, to, p, minDuration, filterEnergy) ==
    LET duration == to - from
        energy == getEnergyLevel(MinuteOfDay(from), p)
    IN  IF duration >= minDuration /\ (filterEnergy = NoFilter \/ energy = filterEnergy)
        THEN <<[start |-> ToISOString(from),
                end |-> ToISOString(to),
                duration |-> duration,
                energyLevel |-> energy]>>
        ELSE <<>>

\* the walk over the merged periods: the slots pushed and the final cursor
RECURSIVE WalkMerged(_, _, _, _, _, _)
WalkMerged(merged, cursor, slots, p, minDuration, filterEnergy) ==
    IF merged = <<>> THEN [cursor |-> cursor, slots |-> slots]
    ELSE LET period == Head(merged)
             pushed == IF period.start > cursor
                       THEN SlotsOfGap(cursor, period.start, p, minDuration, filterEnergy)
                       ELSE <<>>
         IN  WalkMerged(Tail(merged), Max(cursor, period.end), slots \o pushed,
                        p, minDuration, filterEnergy)

\* the busy periods of the day after the sort and the merge
MergedBusy(evs, p, d) ==
    LET dayDate == DayDate(d)
        dayStart == SetHours(dayDate, DAY_START_HOUR, 0)
        dayEnd == SetHours(dayDate, DAY_END_HOUR, 0)
        busy == BusyOfEvents(evs, dayStart, dayEnd)
                \o BusyOfBlocks(p.schedulingRules.protectedBlocks, dayDate)
    IN  MergeBusy(<<>>, SortByStart(busy))

findFreeSlots(evs, p, d, minDuration, filterEnergy) ==
    LET dayDate == DayDate(d)
        dayStart == SetHours(dayDate, DAY_START_HOUR, 0)
        dayEnd == SetHours(dayDate, DAY_END_HOUR, 0)
        walk == WalkMerged(MergedBusy(evs, p, d), dayStart, <<>>, p, minDuration, filterEnergy)
    IN  walk.slots
        \o (IF walk.cursor < dayEnd
            THEN SlotsOfGap(walk.cursor, dayEnd, p, minDuration, filterEnergy)
            ELSE <<>>)

DefaultMinDuration == 30

-----------------------------------------------------------------------------
(* analysis.ts: analyzeDay *)

\* const conflicts = [...detectOverlaps, ...detectOvercommitment, ...detectEnergyMismatches]
ConflictsOfDay(evs, p) ==
    detectOverlaps(evs) \o detectOvercommitment(evs, p) \o detectEnergyMismatches(evs, p)

analyzeDay(evs, p, d) ==
    [date |-> d,
     density |-> calculateDensity(evs),
     conflicts |-> ConflictsOfDay(evs, p),
     lifeAreaBreakdown |-> calculateLifeAreaBreakdown(evs, p),
     freeSlots |-> findFreeSlots(evs, p, d, DefaultMinDuration, NoFilter),
     warnings |-> generateWarnings(evs, p)]

-----------------------------------------------------------------------------
(* analysis.ts: analyzeWeek.  The Map eventsByDay is the sequence of its    *)
(* entries [date, events] in insertion order.                               *)

\* const densityScores = { light: 1, moderate: 2, heavy: 3, overloaded: 4 }
densityScores(density) ==
    CASE density = "light" -> 1
      [] density = "moderate" -> 2
      [] density = "heavy" -> 3
      [] density = "overloaded" -> 4

\* the loop over the Map: the days analysed, in order
RECURSIVE DaysOfWeek(_, _)
DaysOfWeek(ebd, p) ==
    IF ebd = <<>> THEN <<>>
    ELSE <<analyzeDay(Head(ebd).events, p, Head(ebd).date)>> \o DaysOfWeek(Tail(ebd), p)

\* totalEvents += events.length
RECURSIVE TotalEvents(_)
TotalEvents(ebd) ==
    IF ebd = <<>> THEN 0 ELSE Len(Head(ebd).events) + TotalEvents(Tail(ebd))

\* the inner loop: the scheduledHours (tenths) a day's breakdown holds for an area
RECURSIVE HoursOfAreaInDay(_, _)
HoursOfAreaInDay(breakdown, area) ==
    IF breakdown = <<>> THEN 0
    ELSE (IF Head(breakdown).area = area THEN Head(breakdown).scheduledHours ELSE 0)
         + HoursOfAreaInDay(Tail(breakdown), area)

\* aggregatedHours[area], in tenths of an hour
RECURSIVE AggregatedHours(_, _)
AggregatedHours(days, area) ==
    IF days = <<>> THEN 0
    ELSE HoursOfAreaInDay(Head(days).lifeAreaBreakdown, area)
         + AggregatedHours(Tail(days), area)

\* days.reduce((sum, d) => sum + densityScores[d.density], 0)
RECURSIVE SumOfScores(_)
SumOfScores(days) ==
    IF days = <<>> THEN 0 ELSE SumOfScores(Tail(days)) + densityScores(Head(days).density)

\* a slip: an average on a threshold falls in the upper band
AverageDensityStrict(sum, count) ==
    LET num == IF count > 0 THEN sum ELSE 0
        den == IF count > 0 THEN count ELSE 1
    IN  IF 2 * num < 3 * den THEN "light"
        ELSE IF 2 * num < 5 * den THEN "moderate"
        ELSE IF 2 * num < 7 * den THEN "heavy"
        ELSE "overloaded"

\* avgScore = count > 0 ? sum / count : 0, against 1.5, 2.5 and 3.5
AverageDensity(sum, count) ==
    LET num == IF count > 0 THEN sum ELSE 0
        den == IF count > 0 THEN count ELSE 1
    IN  IF 2 * num <= 3 * den THEN "light"
        ELSE IF 2 * num <= 5 * den THEN "moderate"
        ELSE IF 2 * num <= 7 * den THEN "heavy"
        ELSE "overloaded"

\* a slip: the weekly target is taken once per analysed day
WeeklyBreakdownPerDay(days, p) ==
    [i \in DOMAIN p.lifeAreas |->
        LET la == p.lifeAreas[i]
            hours == 60 * AggregatedHours(days, la.name)
        IN  [area |-> la.name,
             scheduledHours |-> RoundToTenths(hours),
             targetHours |-> la.weeklyTargetHours * Len(days),
             delta |-> RoundToTenths(hours - HoursOfTarget(la.weeklyTargetHours * Len(days)))]]

\* summary.lifeAreaBreakdown; a tenth of an hour is 60 six-hundredths
WeeklyBreakdown(days, p) ==
    [i \in DOMAIN p.lifeAreas |->
        LET la == p.lifeAreas[i]
            hours == 60 * AggregatedHours(days, la.name)
        IN  [area |-> la.name,
             scheduledHours |-> RoundToTenths(hours),
             targetHours |-> la.weeklyTargetHours,
             delta |-> RoundToTenths(hours - HoursOfTarget(la.weeklyTargetHours))]]

analyzeWeek(ebd, p, startDate, endDate) ==
    LET days == DaysOfWeek(ebd, p)
    IN  [startDate |-> startDate,
         endDate |-> endDate,
         days |-> days,
         summary |-> [totalEvents |-> TotalEvents(ebd),
                      averageDensity |-> AverageDensity(SumOfScores(days), Len(days)),
                      lifeAreaBreakdown |-> WeeklyBreakdown(days, p)]]

-----------------------------------------------------------------------------
(* Inputs: the events, preferences and dates the calls are made with *)

\* "2025-06-09", the Monday of the test suite, in days since the epoch
Monday == 20248
Tuesday == Monday + 1
Wednesday == Monday + 2

At(h, m) == Marker(DateTime(Monday, h, m), NoString)

Event(id, summary, description, start, end) ==
    [id |-> id, summary |-> summary, description |-> description,
     start |-> start, end |-> end]

\* no summary, no description
NoText == <<>>

EventPool ==
    { Event("b", <<"S", "p", "r", "i", "n", "t">>, NoText, At(10, 0), At(12, 0)),
      Event("c", <<"G", "y", "m">>, NoText, At(9, 30), At(10, 30)),
      Event("d", <<"W", "o", "r", "k", "o", "u", "t">>, NoText, At(13, 0), At(14, 0)),
      Event("e", <<"S", "y", "n", "c">>, NoText, At(13, 30), At(14, 0)),
      Event("f", <<"Y", "o", "g", "a">>, NoText, At(6, 0), At(10, 0)),
      Event("g", <<"D", "i", "n", "n", "e", "r">>, NoText,
            At(18, 0), Marker(NoString, DateOnly(Tuesday))),
      Event("", NoText, NoText, NullMarker, NullMarker),
      Event("y", <<"N", "a", "p">>, <<"g", "y", "m">>, At(10, 0), Marker(NoString, NoString)),
      Event("z", <<"V", "e", "t">>, NoText, Marker(Garbage, NoString), At(10, 0)),
      Event("r", <<"R", "e", "a", "d">>, NoText, At(11, 0), At(10, 30)) }

\* UserPreferences.categoryKeywords: undefined, or a table of areas and keywords
NoCategoryKeywords == [supplied |-> FALSE, table |-> <<>>]
CategoryKeywords(table) == [supplied |-> TRUE, table |-> table]

Range(sh, sm, eh, em) == [start |-> <<sh, sm>>, end |-> <<eh, em>>]

Block(day, sh, sm, eh, em, label) ==
    [day |-> day, start |-> <<sh, sm>>, end |-> <<eh, em>>, label |-> label]

\* basePrefs of the test suite, with the event limit as a parameter and
\* protected blocks on two weekdays; weeklyTargetHours in hundredths of an hour
Prefs(maxMeetings) ==
    [energyPatterns |->
        [highEnergy |-> <<Range(8, 0, 11, 0)>>,
         mediumEnergy |-> <<Range(11, 0, 13, 0), Range(14, 0, 16, 0)>>,
         lowEnergy |-> <<Range(13, 0, 14, 0), Range(16, 0, 18, 0)>>],
     lifeAreas |->
        <<[name |-> "work", weeklyTargetHours |-> 4000, priority |-> 1],
          [name |-> "fitness", weeklyTargetHours |-> 500, priority |-> 2],
          [name |-> "hobbies", weeklyTargetHours |-> 500, priority |-> 3],
          [name |-> "personal", weeklyTargetHours |-> 1000, priority |-> 4],
          [name |-> "social", weeklyTargetHours |-> 400, priority |-> 5]>>,
     schedulingRules |->
        [minBreakBetweenEvents |-> 15,
         maxMeetingsPerDay |-> maxMeetings,
         protectedBlocks |->
            <<Block("monday", 12, 0, 13, 0, "Lunch"),
              Block("tuesday", 5, 0, 8, 0, "Early"),
              Block("tuesday", 22, 0, 23, 0, "Late")>>,
         preferredPlanningDay |-> "sunday"],
     categoryKeywords |-> NoCategoryKeywords]

-----------------------------------------------------------------------------
(* The daily checklist: sortItems of services/calendar.ts *)

\* an optional property that is absent
NoSize == "undefined"
NoCompletedAt == <<"undefined">>

\* a ChecklistItem, by the properties sortItems reads; id tells the items apart
Item(area, size, completed, completedAt) ==
    [id |-> 0, area |-> area, size |-> size,
     completed |-> completed, completedAt |-> completedAt]

\* the optional areaPriority argument: a table of areas and their priorities
NoAreaPriority == [supplied |-> FALSE, table |-> <<>>]
AreaPriority(table) == [supplied |-> TRUE, table |-> table]

MissingPriority == 999

SIZE_PRIORITY == <<[size |-> "quick", priority |-> 1],
                   [size |-> "medium", priority |-> 2],
                   [size |-> "long", priority |-> 3]>>

\* areaPriority[area] ?? 999: the last entry written for the area, if any
AreaPriorityOf(ap, area) ==
    LET found == {k \in DOMAIN ap.table : ap.table[k].area = area}
    IN  IF found = {} THEN MissingPriority
        ELSE ap.table[CHOOSE k \in found : \A m \in found : m <= k].priority

SizePriorityMissingFirst(size) ==
    LET key == IF size = NoSize THEN "quick" ELSE size
        found == {k \in DOMAIN SIZE_PRIORITY : SIZE_PRIORITY[k].size = key}
    IN  IF found = {} THEN 2 ELSE SIZE_PRIORITY[CHOOSE k \in found : TRUE].priority

\* SIZE_PRIORITY[size ?? "medium"] ?? 2
SizePriorityOf(size) ==
    LET key == IF size = NoSize THEN "medium" ELSE size
        found == {k \in DOMAIN SIZE_PRIORITY : SIZE_PRIORITY[k].size = key}
    IN  IF found = {} THEN 2 ELSE SIZE_PRIORITY[CHOOSE k \in found : TRUE].priority

\* the characters of a timestamp, in collation order
TimestampChars == <<"-", ".", ":", "0", "1", "2", "3", "4", "5", "6", "7", "8", "9", "T", "Z">>
CharOrder(c) == CHOOSE k \in DOMAIN TimestampChars : TimestampChars[k] = c

\* a.localeCompare(b) on timestamps: negative, zero or positive
RECURSIVE localeCompare(_, _)
localeCompare(a, b) ==
    IF a = <<>> THEN (IF b = <<>> THEN 0 ELSE -1)
    ELSE IF b = <<>> THEN 1
    ELSE IF Head(a) = Head(b) THEN localeCompare(Tail(a), Tail(b))
    ELSE IF CharOrder(Head(a)) < CharOrder(Head(b)) THEN -1 ELSE 1

\* the comparator of the incomplete items
CompareIncomplete(a, b, ap) ==
    LET aPri == AreaPriorityOf(ap, a.area)
        bPri == AreaPriorityOf(ap, b.area)
    IN  IF ap.supplied /\ aPri # bPri THEN aPri - bPri
        ELSE SizePriorityOf(a.size) - SizePriorityOf(b.size)

\* the comparator of the completed items
CompareCompleted(a, b) ==
    LET aTime == IF a.completedAt = NoCompletedAt THEN <<>> ELSE a.completedAt
        bTime == IF b.completedAt = NoCompletedAt THEN <<>> ELSE b.completedAt
    IN  localeCompare(aTime, bTime)

\* Array.prototype.sort is stable: an item goes after the items it does not precede
RECURSIVE InsertIncomplete(_, _, _)
InsertIncomplete(sorted, x, ap) ==
    IF sorted = <<>> THEN <<x>>
    ELSE IF CompareIncomplete(sorted[Len(sorted)], x, ap) > 0
         THEN Append(InsertIncomplete(SubSeq(sorted, 1, Len(sorted) - 1), x, ap), sorted[Len(sorted)])
         ELSE Append(sorted, x)

RECURSIVE SortIncomplete(_, _)
SortIncomplete(s, ap) ==
    IF s = <<>> THEN <<>>
    ELSE InsertIncomplete(SortIncomplete(SubSeq(s, 1, Len(s) - 1), ap), s[Len(s)], ap)

RECURSIVE InsertCompleted(_, _)
InsertCompleted(sorted, x) ==
    IF sorted = <<>> THEN <<x>>
    ELSE IF CompareCompleted(sorted[Len(sorted)], x) > 0
         THEN Append(InsertCompleted(SubSeq(sorted, 1, Len(sorted) - 1), x), sorted[Len(sorted)])
         ELSE Append(sorted, x)

RECURSIVE SortCompleted(_)
SortCompleted(s) ==
    IF s = <<>> THEN <<>>
    ELSE InsertCompleted(SortCompleted(SubSeq(s, 1, Len(s) - 1)), s[Len(s)])

sortItems(its, ap) ==
    LET incomplete == SelectSeq(its, LAMBDA i : ~i.completed)
        completed == SelectSeq(its, LAMBDA i : i.completed)
    IN  SortIncomplete(incomplete, ap) \o SortCompleted(completed)

-----------------------------------------------------------------------------
(* The stored records of preferences_update and profile_update: JSON       *)
(* values, held by their kind; a plain object by its keys and their values *)

Null == [kind |-> "null"]
Str(t) == [kind |-> "string", text |-> t]
Num(n) == [kind |-> "number", n |-> n]
Arr(s) == [kind |-> "array", elems |-> s]
Obj(f) == [kind |-> "object", fields |-> f]

\* sv && ...: null, the number 0 and the empty string are falsy
IsTruthy(v) == v # Null /\ v # Num(0) /\ v # Str("")

\* typeof v === "object" && !Array.isArray(v), for a truthy v
IsPlainObject(v) == IsTruthy(v) /\ v.kind = "object"

deepMergeShallow(target, source) ==
    [key \in DOMAIN target \cup DOMAIN source |->
        IF key \in DOMAIN source THEN source[key] ELSE target[key]]

\* deepMerge(target, source) over the keys and values of the two objects
RECURSIVE deepMerge(_, _)
deepMerge(target, source) ==
    [key \in DOMAIN target \cup DOMAIN source |->
        IF key \notin DOMAIN source THEN target[key]
        ELSE LET sv == source[key]
             IN  IF /\ IsPlainObject(sv)
                    /\ key \in DOMAIN target
                    /\ IsPlainObject(target[key])
                 THEN Obj(deepMerge(target[key].fields, sv.fields))
                 ELSE sv]

\* the profile that profile_update starts from when none is stored
NewProfile(now) ==
    Obj([name |-> Str(""), bio |-> Str(""), goals |-> Arr(<<>>),
         planningCadence |-> Obj([weeklyPlanningTime |-> Str(""),
                                  dailyCheckinTime |-> Str(""),
                                  weeklyReviewTime |-> Str("")]),
         notes |-> Str(""), createdAt |-> Str(now), updatedAt |-> Str(now)])

\* the record preferences_update saves
preferencesUpdate(current, updates) == Obj(deepMerge(current.fields, updates.fields))

\* the record profile_update saves at the time now; stored is null or a profile
profileUpdate(stored, updates, now) ==
    LET current == IF ~IsTruthy(stored) THEN NewProfile(now) ELSE stored
        merged == deepMerge(current.fields, updates.fields)
        stamped == [merged EXCEPT !.updatedAt = Str(now)]
    IN  Obj(IF ~IsTruthy(stamped.createdAt)
            THEN [stamped EXCEPT !.createdAt = Str(now)] ELSE stamped)

-----------------------------------------------------------------------------
(* The stored checklists: getChecklist, addItem, updateItem and removeItem *)
(* of services/calendar.ts over the files of the data directory. A date    *)
(* string YYYY-MM-DD is held as its day number, whose order is the order   *)
(* of the strings.                                                         *)

\* an optional date that is absent (deadline, carriedFrom, the date argument)
NoDate == 0

\* an optional property of an update: absent, or set to a value
Unset == <<>>
Set(v) == <<v>>
IsSet(opt) == opt # Unset
ValueOf(opt) == opt[1]

\* the item addItem builds
ChecklistItem(id, area, text, size, deadline) ==
    [id |-> id, area |-> area, text |-> text, size |-> size, deadline |-> deadline,
     completed |-> FALSE, carriedFrom |-> NoDate, completedAt |-> NoCompletedAt]

DailyChecklist(d, its) == [date |-> d, items |-> its]

\* no file in the data directory
EmptyStore == [checklists |-> {}, habits |-> <<>>, preferences |-> Null, profile |-> Null]

\* a checklist file of the date exists
HasChecklist(st, d) == \E c \in st.checklists : c.date = d

\* readJSON of the date's file, once it is known to exist
loadChecklist(st, d) == CHOOSE c \in st.checklists : c.date = d

saveChecklistAlone(st, checklist) == [st EXCEPT !.checklists = {checklist}]

\* writeJSON(checklistPath(checklist.date), checklist): the file is replaced
saveChecklist(st, checklist) ==
    [st EXCEPT !.checklists = {c \in @ : c.date # checklist.date} \cup {checklist}]

\* the priority of each life area of the preferences, by its name
getAreaPriority(p) ==
    AreaPriority([i \in DOMAIN p.lifeAreas |->
                     [area |-> p.lifeAreas[i].name, priority |-> p.lifeAreas[i].priority]])

PriorDatesAll(st, beforeDate) == {c.date : c \in st.checklists}

\* the dates of the files before beforeDate; the last of them is the source
PriorDates(st, beforeDate) == {c.date : c \in {x \in st.checklists : x.date < beforeDate}}

findMostRecentChecklist(st, beforeDate) ==
    LET dates == PriorDates(st, beforeDate)
    IN  loadChecklist(st, CHOOSE d \in dates : \A e \in dates : e <= d)

CarriedItemsFromPrior(prior, ctr) ==
    LET incomplete == SelectSeq(prior.items, LAMBDA i : ~i.completed)
    IN  [k \in DOMAIN incomplete |->
            [incomplete[k] EXCEPT !.id = ctr + k, !.carriedFrom = prior.date]]

\* the copies of the incomplete items of prior, with the identifiers that follow ctr
CarriedItems(prior, ctr) ==
    LET incomplete == SelectSeq(prior.items, LAMBDA i : ~i.completed)
    IN  [k \in DOMAIN incomplete |->
            [incomplete[k] EXCEPT
                !.id = ctr + k,
                !.carriedFrom = IF incomplete[k].carriedFrom # NoDate
                                THEN incomplete[k].carriedFrom ELSE prior.date]]

\* date || todayDate()
TargetDate(d, now) == IF d = NoDate THEN now ELSE d

getChecklistRecarrying(st, ctr, p, targetDate) ==
    LET priority == getAreaPriority(p)
        carriedItems ==
            IF PriorDates(st, targetDate) = {} THEN <<>>
            ELSE CarriedItems(findMostRecentChecklist(st, targetDate), ctr)
        checklist == DailyChecklist(targetDate, sortItems(carriedItems, priority))
    IN  [store |-> saveChecklist(st, checklist),
         uuidCounter |-> ctr + Len(carriedItems),
         checklist |-> checklist]

\* getChecklist(date): the store and the identifier count it leaves, and the
\* checklist it returns
getChecklist(st, ctr, p, targetDate) ==
    LET priority == getAreaPriority(p)
    IN  IF HasChecklist(st, targetDate)
        THEN LET existing == loadChecklist(st, targetDate)
             IN  [store |-> st, uuidCounter |-> ctr,
                  checklist |-> [existing EXCEPT !.items = sortItems(@, priority)]]
        ELSE LET carriedItems ==
                     IF PriorDates(st, targetDate) = {} THEN <<>>
                     ELSE CarriedItems(findMostRecentChecklist(st, targetDate), ctr)
                 checklist == DailyChecklist(targetDate, sortItems(carriedItems, priority))
             IN  [store |-> saveChecklist(st, checklist),
                  uuidCounter |-> ctr + Len(carriedItems),
                  checklist |-> checklist]

addItemFixedId(st, ctr, p, now, text, area, size, deadline) ==
    LET got == getChecklist(st, ctr, p, now)
        item == ChecklistItem(1, area, text, size, deadline)
        checklist == [got.checklist EXCEPT
                         !.items = sortItems(Append(@, item), getAreaPriority(p))]
    IN  [store |-> saveChecklist(got.store, checklist),
         uuidCounter |-> got.uuidCounter + 1,
         checklist |-> checklist]

\* addItem(text, area, size, deadline) on the day now
addItem(st, ctr, p, now, text, area, size, deadline) ==
    LET got == getChecklist(st, ctr, p, now)
        item == ChecklistItem(got.uuidCounter + 1, area, text, size, deadline)
        checklist == [got.checklist EXCEPT
                         !.items = sortItems(Append(@, item), getAreaPriority(p))]
    IN  [store |-> saveChecklist(got.store, checklist),
         uuidCounter |-> got.uuidCounter + 1,
         checklist |-> checklist]

\* the positions of the items with the id
PositionsOf(its, id) == {k \in DOMAIN its : its[k].id = id}
FirstPosition(its, id) == CHOOSE k \in PositionsOf(its, id) : \A m \in PositionsOf(its, id) : k <= m

NotFound(what, id) == [message |-> what, id |-> id]
NoError == [message |-> "", id |-> 0]

ApplyUpdatesKeepCompletedAt(item, updates, stamp) ==
    [item EXCEPT
        !.text = IF IsSet(updates.text) THEN ValueOf(updates.text) ELSE @,
        !.area = IF IsSet(updates.area) THEN ValueOf(updates.area) ELSE @,
        !.size = IF IsSet(updates.size) THEN ValueOf(updates.size) ELSE @,
        !.deadline = IF IsSet(updates.deadline) THEN ValueOf(updates.deadline) ELSE @,
        !.completed = IF IsSet(updates.completed) THEN ValueOf(updates.completed) ELSE @,
        !.completedAt = IF IsSet(updates.completed) /\ ValueOf(updates.completed)
                        THEN stamp ELSE @]

\* the assignments of updateItem to the item found; stamp is new Date().toISOString()
ApplyUpdates(item, updates, stamp) ==
    [item EXCEPT
        !.text = IF IsSet(updates.text) THEN ValueOf(updates.text) ELSE @,
        !.area = IF IsSet(updates.area) THEN ValueOf(updates.area) ELSE @,
        !.size = IF IsSet(updates.size) THEN ValueOf(updates.size) ELSE @,
        !.deadline = IF IsSet(updates.deadline) THEN ValueOf(updates.deadline) ELSE @,
        !.completed = IF IsSet(updates.completed) THEN ValueOf(updates.completed) ELSE @,
        !.completedAt = IF IsSet(updates.completed)
                        THEN (IF ValueOf(updates.completed) THEN stamp ELSE NoCompletedAt)
                        ELSE @]

\* updateItem(id, updates) from the checklist got: the checklist to save, or the error
UpdatedChecklist(checklist, p, id, updates, stamp) ==
    IF PositionsOf(checklist.items, id) = {}
    THEN [error |-> NotFound("Checklist item not found", id), checklist |-> checklist]
    ELSE LET k == FirstPosition(checklist.items, id)
             changed == [checklist.items EXCEPT ![k] = ApplyUpdates(@, updates, stamp)]
         IN  [error |-> NoError,
              checklist |-> [checklist EXCEPT !.items = sortItems(changed, getAreaPriority(p))]]

\* items.splice(idx, 1)
Splice(its, k) == [j \in 1..(Len(its) - 1) |-> IF j < k THEN its[j] ELSE its[j + 1]]

RemovedChecklistSilently(checklist, id) ==
    IF PositionsOf(checklist.items, id) = {}
    THEN [error |-> NoError, checklist |-> checklist]
    ELSE [error |-> NoError,
          checklist |-> [checklist EXCEPT !.items = Splice(@, FirstPosition(@, id))]]

\* removeItem(id) from the checklist got: the checklist to save, or the error
RemovedChecklist(checklist, id) ==
    IF PositionsOf(checklist.items, id) = {}
    THEN [error |-> NotFound("Checklist item not found", id), checklist |-> checklist]
    ELSE [error |-> NoError,
          checklist |-> [checklist EXCEPT !.items = Splice(@, FirstPosition(@, id))]]

updateItemDiscardingOnError(st, ctr, p, now, id, updates, stamp) ==
    LET got == getChecklist(st, ctr, p, now)
        outcome == UpdatedChecklist(got.checklist, p, id, updates, stamp)
    IN  [store |-> IF outcome.error = NoError
                   THEN saveChecklist(got.store, outcome.checklist) ELSE st,
         uuidCounter |-> got.uuidCounter,
         error |-> outcome.error,
         checklist |-> outcome.checklist]

\* updateItem(id, updates) on the day now: today's checklist is got, changed
\* and saved unless the id was not found
updateItem(st, ctr, p, now, id, updates, stamp) ==
    LET got == getChecklist(st, ctr, p, now)
        outcome == UpdatedChecklist(got.checklist, p, id, updates, stamp)
    IN  [store |-> IF outcome.error = NoError
                   THEN saveChecklist(got.store, outcome.checklist) ELSE got.store,
         uuidCounter |-> got.uuidCounter,
         error |-> outcome.error,
         checklist |-> outcome.checklist]

\* removeItem(id) on the day now
removeItem(st, ctr, p, now, id) ==
    LET got == getChecklist(st, ctr, p, now)
        outcome == RemovedChecklist(got.checklist, id)
    IN  [store |-> IF outcome.error = NoError
                   THEN saveChecklist(got.store, outcome.checklist) ELSE got.store,
         uuidCounter |-> got.uuidCounter,
         error |-> outcome.error,
         checklist |-> outcome.checklist]

-----------------------------------------------------------------------------
(* The habits: services/habits.ts over habits.json *)

\* a Habit without its id, as addHabit receives it
HabitFields(name, weeklyTarget, lifeArea, defaultDuration, preferredTimeOfDay) ==
    [name |-> name, weeklyTarget |-> weeklyTarget, lifeArea |-> lifeArea,
     defaultDuration |-> defaultDuration, preferredTimeOfDay |-> preferredTimeOfDay]

\* { id: randomUUID(), ...habit }
Habit(id, fields) ==
    [id |-> id, name |-> fields.name, weeklyTarget |-> fields.weeklyTarget,
     lifeArea |-> fields.lifeArea, defaultDuration |-> fields.defaultDuration,
     preferredTimeOfDay |-> fields.preferredTimeOfDay]

\* the habits of habits.json, none when the file is missing
getHabits(st) == st.habits

saveHabits(st, habits) == [st EXCEPT !.habits = habits]

addHabit(st, ctr, fields) ==
    LET created == Habit(ctr + 1, fields)
    IN  [store |-> saveHabits(st, Append(getHabits(st), created)),
         uuidCounter |-> ctr + 1, error |-> NoError, habit |-> created]

\* { ...habits[idx], ...updates }
SpreadHabit(habit, updates) ==
    [habit EXCEPT
        !.name = IF IsSet(updates.name) THEN ValueOf(updates.name) ELSE @,
        !.weeklyTarget = IF IsSet(updates.weeklyTarget) THEN ValueOf(updates.weeklyTarget) ELSE @,
        !.lifeArea = IF IsSet(updates.lifeArea) THEN ValueOf(updates.lifeArea) ELSE @,
        !.defaultDuration =
            IF IsSet(updates.defaultDuration) THEN ValueOf(updates.defaultDuration) ELSE @,
        !.preferredTimeOfDay =
            IF IsSet(updates.preferredTimeOfDay) THEN ValueOf(updates.preferredTimeOfDay) ELSE @]

updateHabit(st, id, updates) ==
    LET habits == getHabits(st)
    IN  IF PositionsOf(habits, id) = {}
        THEN [store |-> st, error |-> NotFound("Habit not found", id), habits |-> habits]
        ELSE LET idx == FirstPosition(habits, id)
                 changed == [habits EXCEPT ![idx] = SpreadHabit(@, updates)]
             IN  [store |-> saveHabits(st, changed), error |-> NoError, habits |-> changed]

removeHabit(st, id) ==
    LET habits == getHabits(st)
    IN  IF PositionsOf(habits, id) = {}
        THEN [store |-> st, error |-> NotFound("Habit not found", id), habits |-> habits]
        ELSE LET changed == Splice(habits, FirstPosition(habits, id))
             IN  [store |-> saveHabits(st, changed), error |-> NoError, habits |-> changed]

\* no call in flight
NoCalls == <<>>

\* nothing stored, nothing in flight: the state of the store before its first call
StoreAtRest ==
    /\ store = EmptyStore
    /\ today = Monday
    /\ uuidCounter = 0
    /\ calls = NoCalls

\* an event limit of 0 with a break of 30 minutes, of 1 with a break of 61
PrefsPool ==
    { [Prefs(0) EXCEPT !.schedulingRules.minBreakBetweenEvents = 30],
      [Prefs(1) EXCEPT !.schedulingRules.minBreakBetweenEvents = 61] }
DatePool == {Monday, Tuesday, Wednesday}
MinDurationPool == {0, DefaultMinDuration}
EnergyFilterPool == {NoFilter, "high", "low"}

NoResult == [op |-> "none"]

-----------------------------------------------------------------------------
(* The calls *)

Init ==
    /\ events = <<>>
    /\ eventsByDay = <<>>
    /\ items = <<>>
    /\ areaPriority = NoAreaPriority
    /\ StoreAtRest
    /\ prefs \in PrefsPool
    /\ date \in DatePool
    /\ result = NoResult

\* the calendar supplies one more event for the call to come
AddEvent(e) ==
    /\ result = NoResult
    /\ Len(events) < MaxEvents
    /\ \A i \in 1..Len(events) : events[i] # e
    /\ events' = Append(events, e)
    /\ result' = NoResult
    /\ UNCHANGED <<prefs, date, eventsByDay, items, areaPriority, store, today, uuidCounter, calls>>

AnalyzeDay ==
    /\ result = NoResult
    /\ result' = [op |-> "analyzeDay", value |-> analyzeDay(events, prefs, date)]
    /\ UNCHANGED <<events, prefs, date, eventsByDay, items, areaPriority, store, today, uuidCounter, calls>>

FindFreeSlots(minDuration, filterEnergy) ==
    /\ result = NoResult
    /\ result' = [op |-> "findFreeSlots",
                  minDuration |-> minDuration,
                  filterEnergy |-> filterEnergy,
                  value |-> findFreeSlots(events, prefs, date, minDuration, filterEnergy)]
    /\ UNCHANGED <<events, prefs, date, eventsByDay, items, areaPriority, store, today, uuidCounter, calls>>

Next ==
    \/ \E e \in EventPool : AddEvent(e)
    \/ AnalyzeDay
    \/ \E m \in MinDurationPool, f \in EnergyFilterPool : FindFreeSlots(m, f)

Spec == Init /\ [][Next]_vars

-----------------------------------------------------------------------------
(* The scenario of the test suite: a day of thirty-minute events, one per   *)
(* hour, under the basePrefs limit of 6 events                              *)

BaseMaxMeetings == 6
ScenarioCount == 8

ScenarioHours == 8..17
ScenarioIds == <<"0", "1", "2", "3", "4", "5", "6", "7", "8", "9">>

\* makeEvent(String(i), `Meeting ${i}`, "..T<h>:00:00", "..T<h>:30:00")
HalfHourEvent(id, h) ==
    Event(id, <<"M", "e", "e", "t", "i", "n", "g">>, NoText, At(h, 0), At(h, 30))

InitScenario ==
    /\ events = <<>>
    /\ eventsByDay = <<>>
    /\ items = <<>>
    /\ areaPriority = NoAreaPriority
    /\ StoreAtRest
    /\ prefs = Prefs(BaseMaxMeetings)
    /\ date = Monday
    /\ result = NoResult

\* one more thirty-minute event, later than the ones before it
AddHalfHourEvent(h) ==
    /\ result = NoResult
    /\ Len(events) < MaxScenarioEvents
    /\ Len(events) < Len(ScenarioIds)
    /\ \A i \in 1..Len(events) : getEventStart(events[i]) < getEventStart(HalfHourEvent("", h))
    /\ events' = Append(events, HalfHourEvent(ScenarioIds[Len(events) + 1], h))
    /\ UNCHANGED <<prefs, date, eventsByDay, items, areaPriority, store, today, uuidCounter, calls, result>>

NextScenario ==
    \/ \E h \in ScenarioHours : AddHalfHourEvent(h)
    \/ AnalyzeDay

SpecScenario == InitScenario /\ [][NextScenario]_vars

-----------------------------------------------------------------------------
(* Energy classification on its own: getEnergyLevel over preferences whose  *)
(* ranges overlap, across levels and within one                             *)

MaxRanges == 2

RangePool == {Range(8, 0, 11, 0), Range(10, 0, 14, 0), Range(13, 0, 18, 0)}

RangeLists == UNION {[1..n -> RangePool] : n \in 0..MaxRanges}

EnergyPrefsPool ==
    { [Prefs(BaseMaxMeetings) EXCEPT
          !.energyPatterns = [highEnergy |-> h, mediumEnergy |-> m, lowEnergy |-> l]] :
      h \in RangeLists, m \in RangeLists, l \in RangeLists }

\* minutes of the day: 07:00, 08:00, 09:00, 10:00, 10:30, 11:00, 13:00, 14:00, 16:00, 18:00, 20:00
ProbeMinutes == {420, 480, 540, 600, 630, 660, 780, 840, 960, 1080, 1200}

InitEnergy ==
    /\ events = <<>>
    /\ eventsByDay = <<>>
    /\ items = <<>>
    /\ areaPriority = NoAreaPriority
    /\ StoreAtRest
    /\ prefs \in EnergyPrefsPool
    /\ date = Monday
    /\ result = NoResult

GetEnergyLevel(minuteOfDay) ==
    /\ result = NoResult
    /\ result' = [op |-> "getEnergyLevel",
                  minuteOfDay |-> minuteOfDay,
                  value |-> getEnergyLevel(minuteOfDay, prefs)]
    /\ UNCHANGED <<events, prefs, date, eventsByDay, items, areaPriority, store, today, uuidCounter, calls>>

NextEnergy == \E m \in ProbeMinutes : GetEnergyLevel(m)

SpecEnergy == InitEnergy /\ [][NextEnergy]_vars

-----------------------------------------------------------------------------
(* Life areas on their own: days of events with telling titles, analysed    *)
(* under preferences that configure other areas or supply categoryKeywords  *)

MaxAreaEvents == 2

TextEventPool ==
    { Event("g1", <<"G", "y", "m", " ", "w", "o", "r", "k", "o", "u", "t">>, NoText, At(9, 0), At(10, 0)),
      Event("t1", <<"T", "e", "a", "m", " ", "S", "Y", "N", "C">>, NoText, At(10, 0), At(10, 15)),
      Event("n1", <<"N", "a", "p">>, NoText, At(14, 0), At(15, 0)),
      Event("p1", <<"E", "v", "e", "n", "i", "n", "g">>, <<"D", "i", "n", "n", "e", "r", " ", "p", "a", "r", "t", "y", " ", "w", "i", "t", "h", " ", "f", "r", "i", "e", "n", "d", "s", " ", "a", "n", "d", " ", "a", " ", "g", "u", "i", "t", "a", "r">>, At(19, 0), At(21, 0)),
      Event("c1", <<"C", "l", "i", "m", "b">>, NoText, At(17, 0), At(17, 20)),
      Event("k1", <<"C", "a", "t", "c", "h">>, <<"u", "p">>, At(12, 0), At(12, 30)),
      Event("r1", <<"R", "e", "a", "d">>, NoText, At(11, 0), At(10, 30)),
      Event("m1", <<"M", "o", "r", "n", "i", "n", "g", " ", "r", "u", "n">>, NoText, At(7, 0), At(8, 15)),
      Event("y1", NoText, <<"P", "i", "l", "a", "t", "e", "s">>, At(7, 0), At(7, 50)) }

\* a keyword table of the user's: "climb" is no built-in keyword, and no
\* built-in keyword but "gym" is in it
CustomKeywords ==
    <<[area |-> "social", keywords |-> <<<<"c", "l", "i", "m", "b">>>>],
      [area |-> "fitness", keywords |-> <<<<"g", "y", "m">>, <<"n", "a", "p">>>>]>>

LifeAreaPrefsPool ==
    { Prefs(BaseMaxMeetings),
      [Prefs(BaseMaxMeetings) EXCEPT
          !.lifeAreas = <<[name |-> "social", weeklyTargetHours |-> 100, priority |-> 1],
                          [name |-> "learning", weeklyTargetHours |-> 300, priority |-> 2],
                          [name |-> "fitness", weeklyTargetHours |-> 125, priority |-> 3],
                          [name |-> "work", weeklyTargetHours |-> 0, priority |-> 4]>>],
      [Prefs(BaseMaxMeetings) EXCEPT !.categoryKeywords = CategoryKeywords(CustomKeywords)],
      [Prefs(BaseMaxMeetings) EXCEPT !.categoryKeywords = CategoryKeywords(<<>>)] }

InitLifeAreas ==
    /\ events = <<>>
    /\ eventsByDay = <<>>
    /\ items = <<>>
    /\ areaPriority = NoAreaPriority
    /\ StoreAtRest
    /\ prefs \in LifeAreaPrefsPool
    /\ date = Monday
    /\ result = NoResult

AddTextEvent(e) ==
    /\ result = NoResult
    /\ Len(events) < MaxAreaEvents
    /\ \A i \in 1..Len(events) : events[i] # e
    /\ events' = Append(events, e)
    /\ UNCHANGED <<prefs, date, eventsByDay, items, areaPriority, store, today, uuidCounter, calls, result>>

\* categorizeEvent applied to one event of the day
CategorizeEvent(i) ==
    /\ result = NoResult
    /\ i \in DOMAIN events
    /\ result' = [op |-> "categorizeEvent", event |-> events[i],
                  value |-> categorizeEvent(events[i])]
    /\ UNCHANGED <<events, prefs, date, eventsByDay, items, areaPriority, store, today, uuidCounter, calls>>

NextLifeAreas ==
    \/ \E e \in TextEventPool : AddTextEvent(e)
    \/ \E i \in 1..MaxAreaEvents : CategorizeEvent(i)
    \/ AnalyzeDay

SpecLifeAreas == InitLifeAreas /\ [][NextLifeAreas]_vars

-----------------------------------------------------------------------------
(* The week: analyzeWeek over a Map that the caller fills day by day *)

MaxWeekDays == 2

AtDay(d, h, m) == Marker(DateTime(d, h, m), NoString)

\* the events a day of the week can hold, after the tests of analyzeWeek
DayEventsPool(d) ==
    { <<>>,
      <<Event("1", <<"W", "o", "r", "k">>, NoText, AtDay(d, 8, 0), AtDay(d, 15, 0))>>,
      <<Event("2", <<"Q", "u", "i", "c", "k", " ", "s", "y", "n", "c">>, NoText, AtDay(d, 9, 0), AtDay(d, 9, 30))>>,
      <<Event("3", <<"G", "y", "m", " ", "s", "e", "s", "s", "i", "o", "n">>, NoText, AtDay(d, 8, 0), AtDay(d, 8, 20)),
        Event("4", <<"S", "p", "r", "i", "n", "t", " ", "p", "l", "a", "n", "n", "i", "n", "g">>, NoText, AtDay(d, 9, 0), AtDay(d, 14, 0))>>,
      <<Event("5", <<"W", "o", "r", "k", " ", "b", "l", "o", "c", "k">>, NoText, AtDay(d, 8, 0), AtDay(d, 17, 0))>>,
      <<Event("6", <<"G", "y", "m", " ", "s", "e", "s", "s", "i", "o", "n">>, NoText, AtDay(d, 8, 0), AtDay(d, 8, 20))>> }

WeekPrefsPool ==
    { Prefs(BaseMaxMeetings),
      [Prefs(BaseMaxMeetings) EXCEPT
          !.lifeAreas = <<[name |-> "fitness", weeklyTargetHours |-> 150, priority |-> 1],
                          [name |-> "work", weeklyTargetHours |-> 1000, priority |-> 2]>>] }

InitWeek ==
    /\ events = <<>>
    /\ eventsByDay = <<>>
    /\ items = <<>>
    /\ areaPriority = NoAreaPriority
    /\ StoreAtRest
    /\ prefs \in WeekPrefsPool
    /\ date = Monday
    /\ result = NoResult

\* eventsByDay.set(d, evs): a new key goes last, a known key keeps its place
SetDay(d, evs) ==
    /\ result = NoResult
    /\ \/ \E k \in DOMAIN eventsByDay :
              /\ eventsByDay[k].date = d
              /\ eventsByDay' = [eventsByDay EXCEPT ![k].events = evs]
       \/ /\ \A k \in DOMAIN eventsByDay : eventsByDay[k].date # d
          /\ Len(eventsByDay) < MaxWeekDays
          /\ eventsByDay' = Append(eventsByDay, [date |-> d, events |-> evs])
    /\ UNCHANGED <<events, prefs, date, items, areaPriority, store, today, uuidCounter, calls, result>>

\* analyzeWeek(eventsByDay, prefs, startDate, endDate) for the week from `date` on
AnalyzeWeek ==
    /\ result = NoResult
    /\ result' = [op |-> "analyzeWeek",
                  value |-> analyzeWeek(eventsByDay, prefs, date, date + 6)]
    /\ UNCHANGED <<events, prefs, date, eventsByDay, items, areaPriority, store, today, uuidCounter, calls>>

NextWeek ==
    \/ \E d \in DatePool : \E evs \in DayEventsPool(d) : SetDay(d, evs)
    \/ AnalyzeWeek

SpecWeek == InitWeek /\ [][NextWeek]_vars

-----------------------------------------------------------------------------
(* Sorting a checklist *)

MaxItems == 3

\* timestamps of one day, by their time of day
Stamp0930 == <<"T", "0", "9", ":", "3", "0", "Z">>
Stamp1000 == <<"T", "1", "0", ":", "0", "0", "Z">>
Stamp1200 == <<"T", "1", "2", ":", "0", "0", "Z">>

\* the items of the tests of sortItems
ItemPool ==
    { Item("work", "long", FALSE, NoCompletedAt),
      Item("work", "quick", FALSE, NoCompletedAt),
      Item("work", "medium", FALSE, NoCompletedAt),
      Item("work", NoSize, FALSE, NoCompletedAt),
      Item("fitness", "quick", FALSE, NoCompletedAt),
      Item("other", "quick", FALSE, NoCompletedAt),
      Item("other", "long", FALSE, NoCompletedAt),
      Item("work", "quick", TRUE, Stamp1200),
      Item("personal", "long", TRUE, Stamp1000),
      Item("work", NoSize, TRUE, Stamp0930),
      Item("fitness", "medium", TRUE, NoCompletedAt) }

\* no table, the table of the tests, and the empty table getAreaPriority falls back to
AreaPriorityPool ==
    { NoAreaPriority,
      AreaPriority(<<[area |-> "work", priority |-> 1],
                     [area |-> "fitness", priority |-> 2],
                     [area |-> "personal", priority |-> 3]>>),
      AreaPriority(<<>>) }

InitChecklist ==
    /\ events = <<>>
    /\ eventsByDay = <<>>
    /\ prefs = Prefs(BaseMaxMeetings)
    /\ date = Monday
    /\ items = <<>>
    /\ areaPriority \in AreaPriorityPool
    /\ StoreAtRest
    /\ result = NoResult

\* checklist.items.push(item), with a fresh id
AddItem(it) ==
    /\ result = NoResult
    /\ Len(items) < MaxItems
    /\ items' = Append(items, [it EXCEPT !.id = Len(items) + 1])
    /\ UNCHANGED <<events, prefs, date, eventsByDay, areaPriority, store, today, uuidCounter, calls, result>>

\* sortItems(items, areaPriority)
SortItems ==
    /\ result = NoResult
    /\ result' = [op |-> "sortItems", value |-> sortItems(items, areaPriority)]
    /\ UNCHANGED <<events, prefs, date, eventsByDay, items, areaPriority, store, today, uuidCounter, calls>>

NextChecklist ==
    \/ \E it \in ItemPool : AddItem(it)
    \/ SortItems

SpecChecklist == InitChecklist /\ [][NextChecklist]_vars

-----------------------------------------------------------------------------
(* The checklist calls, one after the other *)

MaxUuid == 3

\* the arguments of addItem: text, area, size, deadline
AddPool ==
    { <<"Deploy changes", "work", "medium", NoDate>>,
      <<"Ship feature", "other", "medium", Wednesday>> }

NoUpdates == [text |-> Unset, area |-> Unset, size |-> Unset,
              deadline |-> Unset, completed |-> Unset]

\* the updates of the tests of updateItem
UpdatesPool ==
    { [NoUpdates EXCEPT !.completed = Set(TRUE)],
      [NoUpdates EXCEPT !.completed = Set(FALSE)],
      [NoUpdates EXCEPT !.size = Set("medium")] }

\* what new Date().toISOString() can give in the course of a day
StampPool == {Stamp1000}

InitStore ==
    /\ events = <<>>
    /\ eventsByDay = <<>>
    /\ prefs = Prefs(BaseMaxMeetings)
    /\ date = Monday
    /\ items = <<>>
    /\ areaPriority = NoAreaPriority
    /\ StoreAtRest
    /\ result = NoResult

\* the clock passes midnight, up to the day last
NextDay(last) ==
    /\ today < last
    /\ today' = today + 1
    /\ UNCHANGED <<events, prefs, date, eventsByDay, items, areaPriority, store, uuidCounter, calls, result>>

\* checklist_get: getChecklist(date)
ChecklistGet(d) ==
    LET got == getChecklist(store, uuidCounter, prefs, TargetDate(d, today))
    IN  /\ got.uuidCounter <= MaxUuid
        /\ store' = got.store
        /\ uuidCounter' = got.uuidCounter
        /\ result' = [op |-> "getChecklist", date |-> TargetDate(d, today),
                      error |-> NoError, checklist |-> got.checklist]
        /\ UNCHANGED <<events, prefs, date, eventsByDay, items, areaPriority, today, calls>>

\* checklist_add: addItem(text, area, size, deadline)
ChecklistAdd(args) ==
    LET added == addItem(store, uuidCounter, prefs, today, args[1], args[2], args[3], args[4])
    IN  /\ added.uuidCounter <= MaxUuid
        /\ store' = added.store
        /\ uuidCounter' = added.uuidCounter
        /\ result' = [op |-> "addItem", date |-> today,
                      error |-> NoError, checklist |-> added.checklist]
        /\ UNCHANGED <<events, prefs, date, eventsByDay, items, areaPriority, today, calls>>

\* checklist_update: updateItem(id, updates)
ChecklistUpdate(id, updates, stamp) ==
    LET updated == updateItem(store, uuidCounter, prefs, today, id, updates, stamp)
    IN  /\ updated.uuidCounter <= MaxUuid
        /\ store' = updated.store
        /\ uuidCounter' = updated.uuidCounter
        /\ result' = [op |-> "updateItem", date |-> today, id |-> id, updates |-> updates,
                      error |-> updated.error, checklist |-> updated.checklist]
        /\ UNCHANGED <<events, prefs, date, eventsByDay, items, areaPriority, today, calls>>

\* checklist_remove: removeItem(id)
ChecklistRemove(id) ==
    LET removed == removeItem(store, uuidCounter, prefs, today, id)
    IN  /\ removed.uuidCounter <= MaxUuid
        /\ store' = removed.store
        /\ uuidCounter' = removed.uuidCounter
        /\ result' = [op |-> "removeItem", date |-> today, id |-> id,
                      error |-> removed.error, checklist |-> removed.checklist]
        /\ UNCHANGED <<events, prefs, date, eventsByDay, items, areaPriority, today, calls>>

NextStore ==
    \/ NextDay(Tuesday)
    \/ \E d \in DatePool \cup {NoDate} : ChecklistGet(d)
    \/ \E args \in AddPool : ChecklistAdd(args)
    \/ \E id \in 1..MaxUuid : \E updates \in UpdatesPool : \E stamp \in StampPool :
           ChecklistUpdate(id, updates, stamp)
    \/ \E id \in 1..MaxUuid : ChecklistRemove(id)

SpecStore == InitStore /\ [][NextStore]_vars

-----------------------------------------------------------------------------
(* Changing and removing the records of a day: checklist items and habits *)

\* the item of the tests of updateItem and removeItem
TaskPool == { <<"Task", "work", NoSize, NoDate>> }

\* updates of the tests of updateItem
FieldUpdatesPool ==
    { [NoUpdates EXCEPT !.completed = Set(TRUE)],
      [NoUpdates EXCEPT !.text = Set("New text"), !.area = Set("fitness")] }

HabitPool == { HabitFields("Run", 3, "fitness", 30, "morning") }

NoHabitUpdates == [name |-> Unset, weeklyTarget |-> Unset, lifeArea |-> Unset,
                   defaultDuration |-> Unset, preferredTimeOfDay |-> Unset]

HabitUpdatesPool ==
    { [NoHabitUpdates EXCEPT !.name = Set("Read")],
      [NoHabitUpdates EXCEPT !.weeklyTarget = Set(5), !.preferredTimeOfDay = Set("evening")] }

\* habit_add: addHabit(habit)
HabitAdd(fields) ==
    LET added == addHabit(store, uuidCounter, fields)
    IN  /\ added.uuidCounter <= MaxUuid
        /\ store' = added.store
        /\ uuidCounter' = added.uuidCounter
        /\ result' = [op |-> "addHabit", error |-> NoError, habits |-> getHabits(added.store)]
        /\ UNCHANGED <<events, prefs, date, eventsByDay, items, areaPriority, today, calls>>

\* habit_update: updateHabit(id, updates)
HabitUpdate(id, updates) ==
    LET updated == updateHabit(store, id, updates)
    IN  /\ store' = updated.store
        /\ result' = [op |-> "updateHabit", id |-> id, updates |-> updates,
                      error |-> updated.error, habits |-> updated.habits]
        /\ UNCHANGED <<events, prefs, date, eventsByDay, items, areaPriority, today, uuidCounter, calls>>

\* habit_remove: removeHabit(id)
HabitRemove(id) ==
    LET removed == removeHabit(store, id)
    IN  /\ store' = removed.store
        /\ result' = [op |-> "removeHabit", id |-> id,
                      error |-> removed.error, habits |-> removed.habits]
        /\ UNCHANGED <<events, prefs, date, eventsByDay, items, areaPriority, today, uuidCounter, calls>>

NextRecords ==
    \/ \E args \in TaskPool : ChecklistAdd(args)
    \/ \E id \in 1..MaxUuid : \E updates \in FieldUpdatesPool : \E stamp \in StampPool :
           ChecklistUpdate(id, updates, stamp)
    \/ \E id \in 1..MaxUuid : ChecklistRemove(id)
    \/ \E fields \in HabitPool : HabitAdd(fields)
    \/ \E id \in 1..MaxUuid : \E updates \in HabitUpdatesPool : HabitUpdate(id, updates)
    \/ \E id \in 1..MaxUuid : HabitRemove(id)

SpecRecords == InitStore /\ [][NextRecords]_vars

-----------------------------------------------------------------------------
(* Items added on the first day and carried over the days that follow *)

\* addItem while today is the first day
AddOnFirstDay(args) ==
    /\ today = Monday
    /\ ChecklistAdd(args)

\* getChecklist() of the day
GetToday == ChecklistGet(NoDate)

\* the item is completed, or taken up again
CompleteToday(id, done, stamp) ==
    ChecklistUpdate(id, [NoUpdates EXCEPT !.completed = Set(done)], stamp)

NextLineage ==
    \/ NextDay(Wednesday)
    \/ \E args \in AddPool : AddOnFirstDay(args)
    \/ GetToday
    \/ \E id \in 1..MaxUuid : \E done \in BOOLEAN : \E stamp \in StampPool :
           CompleteToday(id, done, stamp)

SpecLineage == InitStore /\ [][NextLineage]_vars

-----------------------------------------------------------------------------
(* Vocabulary of the properties *)

IsAnalysis == result.op = "analyzeDay"
IsFreeSlots == result.op = "findFreeSlots"

SeqRange(s) == {s[i] : i \in DOMAIN s}

ConflictsOfType(conflicts, t) == SelectSeq(conflicts, LAMBDA c : c.type = t)

StartOf(e) == getEventStart(e)
EndOf(e) == getEventEnd(e)

IndexPairs(evs) == {pr \in (DOMAIN evs) \X (DOMAIN evs) : pr[1] < pr[2]}

TrulyOverlap(a, b) == StartOf(a) < EndOf(b) /\ StartOf(b) < EndOf(a)

IdsOf(list) == SelectSeq(list, LAMBDA x : x # "")

\* the events at the indices in I, in their order
Keep(evs, I) ==
    LET F[k \in 0..Len(evs)] ==
            IF k = 0 THEN <<>>
            ELSE IF k \in I THEN Append(F[k - 1], evs[k]) ELSE F[k - 1]
    IN  F[Len(evs)]

\* the pairs named by the overlap conflicts, each as the set of its ids
FlaggedPairs(conflicts) ==
    {SeqRange(c.affectedEvents) : c \in SeqRange(ConflictsOfType(conflicts, "overlap"))}

\* the id sets of the overlapping pairs of a set of events: the list's order plays no part
OverlappingIdSets(evset) ==
    { {pr[1].id, pr[2].id} \ {""} :
          pr \in {q \in evset \X evset : q[1] # q[2] /\ TrulyOverlap(q[1], q[2])} }

\* the sum of the events' durations, each event counted in full
SumOfDurations(evs) ==
    LET F[k \in 0..Len(evs)] ==
            IF k = 0 THEN 0 ELSE F[k - 1] + (EndOf(evs[k]) - StartOf(evs[k]))
    IN  F[Len(evs)]

\* the level of a minute of the day by precedence: high, medium, low, else medium
ClaimedLevel(m, p) ==
    LET Inside(r) == /\ r.start[1] * 60 + r.start[2] <= m
                     /\ m < r.end[1] * 60 + r.end[2]
        Some(list) == \E k \in DOMAIN list : Inside(list[k])
    IN  IF Some(p.energyPatterns.highEnergy) THEN "high"
        ELSE IF Some(p.energyPatterns.mediumEnergy) THEN "medium"
        ELSE IF Some(p.energyPatterns.lowEnergy) THEN "low"
        ELSE "medium"

BandRank(d) ==
    CASE d = "light" -> 1 [] d = "moderate" -> 2 [] d = "heavy" -> 3 [] d = "overloaded" -> 4

-----------------------------------------------------------------------------
(* Overlap conflicts *)

\* C1: analyzeDay emits exactly one overlap conflict, of severity high, for
\* each pair of events with start(a) < end(b) and start(b) < end(a), none for
\* any other pair (so none for two events that only touch), and the set of
\* flagged pairs is a function of the set of events, whatever their order in
\* the list.
C1_OneOverlapPerPair ==
    IsAnalysis =>
        LET ov == ConflictsOfType(result.value.conflicts, "overlap")
        IN  /\ \A k \in DOMAIN ov : ov[k].severity = "high"
            /\ Len(ov) = Cardinality({pr \in IndexPairs(events) :
                                        TrulyOverlap(events[pr[1]], events[pr[2]])})
            /\ \A pr \in IndexPairs(events) :
                   Cardinality({k \in DOMAIN ov :
                       ov[k].affectedEvents = IdsOf(<<events[pr[1]].id, events[pr[2]].id>>)})
                   = IF TrulyOverlap(events[pr[1]], events[pr[2]]) THEN 1 ELSE 0
            /\ FlaggedPairs(result.value.conflicts) = OverlappingIdSets(SeqRange(events))

\* an analysed day with a pair that overlaps and a pair that only touches
C1_Witness ==
    /\ IsAnalysis
    /\ \E pr \in IndexPairs(events) : TrulyOverlap(events[pr[1]], events[pr[2]])
    /\ \E i, j \in DOMAIN events :
           /\ EndOf(events[i]) = StartOf(events[j])
           /\ StartOf(events[i]) < EndOf(events[i])
           /\ StartOf(events[j]) < EndOf(events[j])
    /\ Len(ConflictsOfType(result.value.conflicts, "overlap")) >= 1

-----------------------------------------------------------------------------
(* Overcommitment *)

\* C2: analyzeDay emits no overcommitment conflict when the number of events
\* is at most maxMeetingsPerDay and exactly one when it is greater; its
\* severity is high exactly when the count exceeds max + 2, otherwise medium,
\* and its affectedEvents are the ids of all the events that have one.
C2_Overcommitment ==
    IsAnalysis =>
        LET oc == ConflictsOfType(result.value.conflicts, "overcommitment")
            n == Len(events)
            max == prefs.schedulingRules.maxMeetingsPerDay
        IN  /\ Len(oc) = IF n > max THEN 1 ELSE 0
            /\ n > max =>
                  /\ oc[1].severity = IF n > max + 2 THEN "high" ELSE "medium"
                  /\ \A i \in DOMAIN events :
                         events[i].id # "" => events[i].id \in SeqRange(oc[1].affectedEvents)
                  /\ SeqRange(oc[1].affectedEvents) \subseteq
                         {events[i].id : i \in DOMAIN events} \ {""}
                  /\ Len(oc[1].affectedEvents)
                         = Cardinality({i \in DOMAIN events : events[i].id # ""})

\* an analysed day more than two events over the limit, one event without an id
C2_Witness ==
    /\ IsAnalysis
    /\ Len(events) > prefs.schedulingRules.maxMeetingsPerDay + 2
    /\ \E i \in DOMAIN events : events[i].id = ""
    /\ \E c \in SeqRange(result.value.conflicts) :
           c.type = "overcommitment" /\ c.severity = "high"

\* the scenario: basePrefs' limit and 8 thirty-minute events, none overlapping
ScenarioAnalysed ==
    /\ IsAnalysis
    /\ prefs.schedulingRules.maxMeetingsPerDay = BaseMaxMeetings
    /\ Len(events) = ScenarioCount
    /\ \A i \in DOMAIN events : EndOf(events[i]) - StartOf(events[i]) = 30
    /\ \A pr \in IndexPairs(events) : ~TrulyOverlap(events[pr[1]], events[pr[2]])

\* C3 as stated: with maxMeetingsPerDay = 6 and 8 non-overlapping thirty-minute
\* events there is exactly one overcommitment conflict, of severity high.
C3_ScenarioHigh ==
    ScenarioAnalysed =>
        LET oc == ConflictsOfType(result.value.conflicts, "overcommitment")
        IN  Len(oc) = 1 /\ oc[1].severity = "high"

\* C3 as amended: with maxMeetingsPerDay = 6 and 8 non-overlapping
\* thirty-minute events there is exactly one overcommitment conflict, and its
\* severity is medium (8 does not exceed 6 + 2).
C3_ScenarioMedium ==
    ScenarioAnalysed =>
        LET oc == ConflictsOfType(result.value.conflicts, "overcommitment")
        IN  Len(oc) = 1 /\ oc[1].severity = "medium"

\* the scenario has been analysed and has its overcommitment conflict
C3_Witness ==
    /\ ScenarioAnalysed
    /\ Len(ConflictsOfType(result.value.conflicts, "overcommitment")) = 1

-----------------------------------------------------------------------------
(* Energy *)

\* the event is at least an hour long and starts at a low-energy minute
StartsLowAndLong(e, p) ==
    /\ EndOf(e) - StartOf(e) >= 60
    /\ ClaimedLevel(StartOf(e) % (24 * 60), p) = "low"

\* C4: analyzeDay emits one energy_mismatch conflict, of severity medium, for
\* an event exactly when the event lasts at least 60 minutes and the energy
\* level at the minute of the day of its start is low; shorter events are
\* never flagged, an event of exactly 60 minutes in a low window is.
C4_EnergyMismatch ==
    IsAnalysis =>
        LET em == ConflictsOfType(result.value.conflicts, "energy_mismatch")
        IN  /\ \A k \in DOMAIN em : em[k].severity = "medium"
            /\ Len(em) = Cardinality({i \in DOMAIN events : StartsLowAndLong(events[i], prefs)})
            /\ \A i \in DOMAIN events :
                   Cardinality({k \in DOMAIN em :
                       em[k].affectedEvents = IdsOf(<<events[i].id>>)})
                   = IF StartsLowAndLong(events[i], prefs) THEN 1 ELSE 0

\* an analysed day with a flagged event of exactly 60 minutes and a shorter
\* event that starts in a low window
C4_Witness ==
    /\ IsAnalysis
    /\ \E i \in DOMAIN events :
           /\ EndOf(events[i]) - StartOf(events[i]) = 60
           /\ \E c \in SeqRange(result.value.conflicts) :
                  c.type = "energy_mismatch" /\ c.affectedEvents = <<events[i].id>>
    /\ \E j \in DOMAIN events :
           /\ EndOf(events[j]) - StartOf(events[j]) < 60
           /\ EndOf(events[j]) - StartOf(events[j]) > 0
           /\ ClaimedLevel(StartOf(events[j]) % (24 * 60), prefs) = "low"

\* C5: the energy level of a minute of the day is high if it lies in some
\* high range [start, end), otherwise medium if in some medium range,
\* otherwise low if in some low range, otherwise medium.
C5_EnergyPrecedence ==
    result.op = "getEnergyLevel" =>
        result.value = ClaimedLevel(result.minuteOfDay, prefs)

\* a minute classified high that lies in a high range and in a low range and
\* is the end of a medium range
C5_Witness ==
    /\ result.op = "getEnergyLevel"
    /\ result.value = "high"
    /\ \E r \in SeqRange(prefs.energyPatterns.lowEnergy) :
           /\ r.start[1] * 60 + r.start[2] <= result.minuteOfDay
           /\ result.minuteOfDay < r.end[1] * 60 + r.end[2]
    /\ \E r \in SeqRange(prefs.energyPatterns.mediumEnergy) :
           r.end[1] * 60 + r.end[2] = result.minuteOfDay

-----------------------------------------------------------------------------
(* Density *)

\* C6: the density is the band of the sum of all event durations, overlapping
\* time counted once per event: under 4h light, from 4h under 6h moderate,
\* from 6h under 8h heavy, from 8h overloaded.
C6_DensityBands ==
    IsAnalysis =>
        LET total == SumOfDurations(events)
        IN  result.value.density =
                IF total < 4 * 60 THEN "light"
                ELSE IF total < 6 * 60 THEN "moderate"
                ELSE IF total < 8 * 60 THEN "heavy"
                ELSE "overloaded"

\* an analysed day of exactly 4 hours, two of its events overlapping: moderate
C6_Witness ==
    /\ IsAnalysis
    /\ SumOfDurations(events) = 4 * 60
    /\ \E pr \in IndexPairs(events) : TrulyOverlap(events[pr[1]], events[pr[2]])
    /\ result.value.density = "moderate"

\* C7: density is monotone in the event set: for every part of the day's
\* events, the total scheduled time of the whole day is at least that of the
\* part, and the band of the whole day is at least the band of the part,
\* also with events whose end is missing or earlier than their start.
C7_DensityMonotone ==
    IsAnalysis =>
        \A I \in SUBSET (DOMAIN events) :
            /\ TotalMinutes(Keep(events, I)) <= TotalMinutes(events)
            /\ BandRank(calculateDensity(Keep(events, I)))
                   <= BandRank(result.value.density)

-----------------------------------------------------------------------------
(* Malformed events *)

\* the marker yields a date: it is there and the string it offers parses
MarkerUsable(mk) ==
    /\ ~mk.isNull
    /\ (IF Truthy(mk.dateTime) THEN mk.dateTime ELSE mk.date).kind \in {"dateTime", "date"}

Malformed(e) == ~MarkerUsable(e.start) \/ ~MarkerUsable(e.end)

\* C8: an event whose start marker or end marker is missing or unparsable is
\* a zero-duration event at the epoch: it adds nothing to the day's total,
\* and the density and the free slots are those of the day without it.
C8_MalformedIsAbsent ==
    \A i \in DOMAIN events :
        Malformed(events[i]) =>
            LET rest == Keep(events, (DOMAIN events) \ {i})
            IN  /\ getEventStart(events[i]) = Epoch
                /\ getEventEnd(events[i]) = Epoch
                /\ TotalMinutes(events) = TotalMinutes(rest)
                /\ IsAnalysis =>
                       /\ result.value.density = analyzeDay(rest, prefs, date).density
                       /\ result.value.freeSlots = analyzeDay(rest, prefs, date).freeSlots
                /\ IsFreeSlots =>
                       result.value = findFreeSlots(rest, prefs, date,
                                                    result.minDuration, result.filterEnergy)

-----------------------------------------------------------------------------
(* Free slots *)

WindowStart(d) == d * (24 * 60) + 7 * 60
WindowEnd(d) == d * (24 * 60) + 21 * 60

\* the instant an ISO string names
FromISO(str) == str.day * (24 * 60) + str.hour * 60 + str.minute

BlocksOfDay(p, d) ==
    {b \in SeqRange(p.schedulingRules.protectedBlocks) : b.day = DayName(DayDate(d))}

BlockStart(b, d) == d * (24 * 60) + b.start[1] * 60 + b.start[2]
BlockEnd(b, d) == d * (24 * 60) + b.end[1] * 60 + b.end[2]

\* the minute [m, m + 1) is taken by an event or by a protected block of the day
BusyMinute(m, evs, p, d) ==
    \/ \E i \in DOMAIN evs : StartOf(evs[i]) <= m /\ m < EndOf(evs[i])
    \/ \E b \in BlocksOfDay(p, d) : BlockStart(b, d) <= m /\ m < BlockEnd(b, d)

BusyInWindow(evs, p, d) ==
    Cardinality({m \in WindowStart(d)..(WindowEnd(d) - 1) : BusyMinute(m, evs, p, d)})

SumOfSlots(slots) ==
    LET F[k \in 0..Len(slots)] == IF k = 0 THEN 0 ELSE F[k - 1] + slots[k].duration
    IN  F[Len(slots)]

\* C9: without an energy filter the slot durations sum to 840 minutes minus
\* the busy time inside the window when minDuration = 0, and to at most that
\* with a larger minDuration.
C9_FreeBusyComplement ==
    (IsFreeSlots /\ result.filterEnergy = NoFilter) =>
        LET free == 840 - BusyInWindow(events, prefs, date)
        IN  /\ SumOfSlots(result.value) <= free
            /\ result.minDuration = 0 => SumOfSlots(result.value) = free

\* do [a1, a2) and [b1, b2) share an instant?
Intersect(a1, a2, b1, b2) ==
    (IF a1 >= b1 THEN a1 ELSE b1) < (IF a2 <= b2 THEN a2 ELSE b2)

\* C10: every slot lies inside the window [07:00, 21:00] of the date and
\* meets neither an event nor a protected block of the date's weekday.
C10_SlotsInsideWindow ==
    IsFreeSlots =>
        \A k \in DOMAIN result.value :
            LET from == FromISO(result.value[k].start)
                to == FromISO(result.value[k].end)
            IN  /\ WindowStart(date) <= from
                /\ to <= WindowEnd(date)
                /\ \A i \in DOMAIN events :
                       ~Intersect(from, to, StartOf(events[i]), EndOf(events[i]))
                /\ \A b \in BlocksOfDay(prefs, date) :
                       ~Intersect(from, to, BlockStart(b, date), BlockEnd(b, date))

\* C11: the slots are in ascending order of start and pairwise disjoint, each
\* has start < end, a duration of end - start minutes and at least
\* minDuration minutes (so no zero-length slot between touching events).
C11_SlotsOrderedDisjoint ==
    IsFreeSlots =>
        LET slots == result.value
        IN  /\ \A k \in DOMAIN slots :
                   /\ FromISO(slots[k].start) < FromISO(slots[k].end)
                   /\ slots[k].duration = FromISO(slots[k].end) - FromISO(slots[k].start)
                   /\ slots[k].duration >= result.minDuration
            /\ \A k \in 1..(Len(slots) - 1) :
                   /\ FromISO(slots[k].start) < FromISO(slots[k + 1].start)
                   /\ FromISO(slots[k].end) <= FromISO(slots[k + 1].start)

\* C12: each slot's energyLevel is the energy level of the minute of the day
\* at which the slot starts, and with an energy filter the result is exactly
\* the slots of the unfiltered result (same events, preferences, date and
\* minDuration) whose level equals the filter, each unchanged.
C12_EnergyFilter ==
    IsFreeSlots =>
        LET unfiltered == findFreeSlots(events, prefs, date, result.minDuration, NoFilter)
        IN  /\ \A k \in DOMAIN result.value :
                   result.value[k].energyLevel
                       = ClaimedLevel(FromISO(result.value[k].start) % (24 * 60), prefs)
            /\ result.filterEnergy # NoFilter =>
                   result.value = SelectSeq(unfiltered,
                                            LAMBDA sl : sl.energyLevel = result.filterEnergy)

\* a filtered call that kept a slot and dropped another, the kept slot
\* reaching into minutes of another level
C12_Witness ==
    /\ IsFreeSlots
    /\ result.filterEnergy = "low"
    /\ Len(result.value) >= 1
    /\ Len(findFreeSlots(events, prefs, date, result.minDuration, NoFilter)) > Len(result.value)
    /\ \E k \in DOMAIN result.value :
           ClaimedLevel((FromISO(result.value[k].end) - 1) % (24 * 60), prefs) # "low"

-----------------------------------------------------------------------------
(* Life areas *)

IsCategorized == result.op = "categorizeEvent"

\* the lowercased "title description" of an event
LowerText(e) == ToLowerCase(e.summary \o <<" ">> \o e.description)

\* kw is a stretch of text
Occurs(kw, text) ==
    \E i \in 1..(Len(text) - Len(kw) + 1) : SubSeq(text, i, i + Len(kw) - 1) = kw

\* the keywords of an entry of a keyword table that occur in the event's text
MatchedKeywords(e, entry) ==
    {k \in DOMAIN entry.keywords : Occurs(entry.keywords[k], LowerText(e))}

\* the entries of a keyword table that have a keyword in the event's text
MatchingEntries(e, table) == {n \in DOMAIN table : MatchedKeywords(e, table[n]) # {}}

\* the area of the first matching entry of the table, "" when none matches
ClaimedArea(e, table) ==
    IF MatchingEntries(e, table) = {} THEN ""
    ELSE table[CHOOSE n \in MatchingEntries(e, table) :
                   \A q \in MatchingEntries(e, table) : n <= q].area

BuiltInOnly == ~prefs.categoryKeywords.supplied

\* C13: an event's area is that of the first entry of the keyword table, in
\* declaration order, with a keyword that occurs in the lowercased title and
\* description, whatever later entries match; an event that matches no entry
\* has no area and adds to no area's hours.
C13_FirstAreaWins ==
    BuiltInOnly =>
        /\ IsCategorized =>
               result.value = ClaimedArea(result.event, LIFE_AREA_KEYWORDS)
        /\ (IsAnalysis /\ \A i \in DOMAIN events :
                              ClaimedArea(events[i], LIFE_AREA_KEYWORDS) = "") =>
               \A k \in DOMAIN result.value.lifeAreaBreakdown :
                   result.value.lifeAreaBreakdown[k].scheduledHours = 0

\* an event categorized by its first matching entry although a later entry
\* has more of its keywords in the text
C13_Witness ==
    /\ BuiltInOnly
    /\ IsCategorized
    /\ result.value # ""
    /\ \E n, q \in MatchingEntries(result.event, LIFE_AREA_KEYWORDS) :
           /\ n < q
           /\ LIFE_AREA_KEYWORDS[n].area = result.value
           /\ Cardinality(MatchedKeywords(result.event, LIFE_AREA_KEYWORDS[q]))
                  > Cardinality(MatchedKeywords(result.event, LIFE_AREA_KEYWORDS[n]))

\* the entry of the built-in table for an area
EntryOf(area) ==
    LIFE_AREA_KEYWORDS[CHOOSE n \in DOMAIN LIFE_AREA_KEYWORDS :
                           LIFE_AREA_KEYWORDS[n].area = area]

\* the event's text has a fitness keyword and a work keyword
FitnessAndWork(e) ==
    /\ MatchedKeywords(e, EntryOf("fitness")) # {}
    /\ MatchedKeywords(e, EntryOf("work")) # {}

\* C14 as stated: with no keyword override the built-in table is consulted
\* with fitness and the other specific areas before work, so an event whose
\* text has both a fitness keyword and a work keyword is categorized fitness.
C14_FitnessBeforeWork ==
    (BuiltInOnly /\ IsCategorized /\ FitnessAndWork(result.event)) =>
        result.value = "fitness"

\* C14 as amended: with no keyword override the built-in table is consulted
\* in the order work, fitness, hobbies, personal, social, so an event whose
\* text has a work keyword is categorized work, also when it has a fitness
\* keyword ("workout" contains "work").
C14_WorkBeforeFitness ==
    (BuiltInOnly /\ IsCategorized) =>
        /\ [n \in DOMAIN LIFE_AREA_KEYWORDS |-> LIFE_AREA_KEYWORDS[n].area]
               = <<"work", "fitness", "hobbies", "personal", "social">>
        /\ MatchedKeywords(result.event, EntryOf("work")) # {} => result.value = "work"

\* a categorized event with "workout" in its title
C14_Witness ==
    /\ BuiltInOnly
    /\ IsCategorized
    /\ FitnessAndWork(result.event)
    /\ Occurs(<<"w", "o", "r", "k", "o", "u", "t">>, LowerText(result.event))
    /\ result.value = "work"

\* the minutes of the day's events that a keyword table assigns to an area
MinutesOfArea(evs, table, area) ==
    LET F[k \in 0..Len(evs)] ==
            IF k = 0 THEN 0
            ELSE F[k - 1] + (IF ClaimedArea(evs[k], table) = area /\ area # ""
                             THEN EndOf(evs[k]) - StartOf(evs[k]) ELSE 0)
    IN  F[Len(evs)]

\* hours to one decimal, in tenths: the nearest tenth, a half rounded up
Tenths(minutes) ==
    CHOOSE t \in ((minutes \div 6) - 1)..((minutes \div 6) + 1) :
        12 * t - 6 <= 2 * minutes /\ 2 * minutes < 12 * t + 6

\* C15: when preferences.categoryKeywords is supplied, the day's hours are
\* assigned by that table in place of the built-in one: an event matching
\* only a built-in keyword absent from the override adds to no area, an event
\* matching an override keyword adds to the override's area.
C15_OverrideReplacesBuiltIn ==
    (IsAnalysis /\ prefs.categoryKeywords.supplied) =>
        \A k \in DOMAIN result.value.lifeAreaBreakdown :
            LET entry == result.value.lifeAreaBreakdown[k]
            IN  entry.scheduledHours
                    = Tenths(MinutesOfArea(events, prefs.categoryKeywords.table, entry.area))

\* the nearest tenth of an hour, a half rounded up, to minutes / 60 hours less
\* a target held in hundredths of an hour
TenthsLessTarget(minutes, target) ==
    LET about == (10 * minutes - 6 * target) \div 60
    IN  CHOOSE t \in (about - 1)..(about + 1) :
            60 * t - 30 <= 10 * minutes - 6 * target /\ 10 * minutes - 6 * target < 60 * t + 30

\* one entry per configured life area, in declaration order, with the area's
\* target unchanged
OneEntryPerArea(breakdown, p) ==
    /\ DOMAIN breakdown = DOMAIN p.lifeAreas
    /\ \A k \in DOMAIN breakdown :
           /\ breakdown[k].area = p.lifeAreas[k].name
           /\ breakdown[k].targetHours = p.lifeAreas[k].weeklyTargetHours

\* the events of the days of the week
WeekEvents == UNION {SeqRange(evs) : evs \in UNION {DayEventsPool(d) : d \in DatePool}}

\* the area the built-in table gives each event of the pools
BuiltInArea == [e \in EventPool \cup TextEventPool \cup WeekEvents |-> ClaimedArea(e, LIFE_AREA_KEYWORDS)]

\* the minutes of the day's events that the built-in table assigns to an area
BuiltInMinutes(evs, area) ==
    LET F[k \in 0..Len(evs)] ==
            IF k = 0 THEN 0
            ELSE F[k - 1] + (IF BuiltInArea[evs[k]] = area /\ area # ""
                             THEN EndOf(evs[k]) - StartOf(evs[k]) ELSE 0)
    IN  F[Len(evs)]

\* scheduledHours is the summed duration of the events categorized to the area
ScheduledIsSum(breakdown, evs) ==
    \A k \in DOMAIN breakdown :
        breakdown[k].scheduledHours = Tenths(BuiltInMinutes(evs, breakdown[k].area))

\* hundredths of an hour to one decimal, in tenths, a half rounded up
TenthsOfHundredths(x) == (x + 5) \div 10

\* C16 as stated: the breakdown has one entry per configured life area in
\* declaration order; scheduledHours is the summed duration of the events
\* categorized to the area, targetHours is the area's weeklyTargetHours, and
\* delta equals scheduledHours - targetHours (to one decimal, as every
\* figure of the breakdown).
C16_DeltaOfRoundedHours ==
    IsAnalysis =>
        LET breakdown == result.value.lifeAreaBreakdown
        IN  /\ OneEntryPerArea(breakdown, prefs)
            /\ BuiltInOnly =>
                   /\ ScheduledIsSum(breakdown, events)
                   /\ \A k \in DOMAIN breakdown :
                          breakdown[k].delta
                              = TenthsOfHundredths(10 * breakdown[k].scheduledHours
                                                   - breakdown[k].targetHours)

\* C16 as amended: as stated, but delta is the unrounded summed hours less
\* targetHours, rounded to one decimal.
C16_DeltaOfSummedHours ==
    IsAnalysis =>
        LET breakdown == result.value.lifeAreaBreakdown
        IN  /\ OneEntryPerArea(breakdown, prefs)
            /\ BuiltInOnly =>
                   /\ ScheduledIsSum(breakdown, events)
                   /\ \A k \in DOMAIN breakdown :
                          breakdown[k].delta
                              = TenthsLessTarget(BuiltInMinutes(events, breakdown[k].area),
                                                 breakdown[k].targetHours)

\* an analysed day with an event of an area that is not configured, an
\* event of a configured area, a negative delta and a positive one
C16_Witness ==
    /\ IsAnalysis
    /\ BuiltInOnly
    /\ \E i \in DOMAIN events :
           /\ BuiltInArea[events[i]] # ""
           /\ \A k \in DOMAIN prefs.lifeAreas :
                  prefs.lifeAreas[k].name # BuiltInArea[events[i]]
    /\ \E k \in DOMAIN result.value.lifeAreaBreakdown :
           /\ result.value.lifeAreaBreakdown[k].scheduledHours > 0
           /\ result.value.lifeAreaBreakdown[k].delta > 0
    /\ \E k \in DOMAIN result.value.lifeAreaBreakdown :
           result.value.lifeAreaBreakdown[k].delta < 0

-----------------------------------------------------------------------------
(* Warnings *)

\* event i comes before event j when the events are ordered by start, events
\* of equal start staying in the order of the list
Before(evs, i, j) ==
    \/ StartOf(evs[i]) < StartOf(evs[j])
    \/ StartOf(evs[i]) = StartOf(evs[j]) /\ i < j

\* the pairs of events that are neighbours in that order
AdjacentPairs(evs) ==
    {pr \in (DOMAIN evs) \X (DOMAIN evs) :
        /\ Before(evs, pr[1], pr[2])
        /\ ~\E k \in DOMAIN evs : Before(evs, pr[1], k) /\ Before(evs, k, pr[2])}

GapOf(evs, pr) == StartOf(evs[pr[2]]) - EndOf(evs[pr[1]])

\* the neighbours with a gap of at least 0 and less than the minimum break
ShortBreaks(evs, p) ==
    {pr \in AdjacentPairs(evs) :
        /\ 0 <= GapOf(evs, pr)
        /\ GapOf(evs, pr) < p.schedulingRules.minBreakBetweenEvents}

BackToBackWarnings(warnings) == SelectSeq(warnings, LAMBDA w : w.kind = "back-to-back")

\* C17: analyzeDay emits one back-to-back warning exactly when, with the
\* events ordered by start, some adjacent pair has a gap g with
\* 0 <= g < minBreakBetweenEvents; the warning names the number of such
\* pairs; and the warning is advisory: the conflicts are the overlap,
\* overcommitment and energy conflicts alone and the free slots are those
\* found without any minimum break.
C17_BackToBackWarning ==
    IsAnalysis =>
        LET bb == BackToBackWarnings(result.value.warnings)
            n == Cardinality(ShortBreaks(events, prefs))
        IN  /\ Len(bb) = IF n > 0 THEN 1 ELSE 0
            /\ n > 0 => bb[1].count = n
            /\ Len(result.value.conflicts)
                   = Cardinality({pr \in IndexPairs(events) :
                                     TrulyOverlap(events[pr[1]], events[pr[2]])})
                     + (IF Len(events) > prefs.schedulingRules.maxMeetingsPerDay THEN 1 ELSE 0)
                     + Cardinality({i \in DOMAIN events : StartsLowAndLong(events[i], prefs)})
            /\ result.value.freeSlots
                   = findFreeSlots(events,
                                   [prefs EXCEPT !.schedulingRules.minBreakBetweenEvents = 0],
                                   date, DefaultMinDuration, NoFilter)

\* an analysed day, its events not in the order of their starts, with a
\* counted pair, an overlapping pair and a pair at least the minimum break apart
C17_Witness ==
    /\ IsAnalysis
    /\ \E i, j \in DOMAIN events : i < j /\ StartOf(events[j]) < StartOf(events[i])
    /\ ShortBreaks(events, prefs) # {}
    /\ \E pr \in AdjacentPairs(events) : GapOf(events, pr) < 0
    /\ BackToBackWarnings(result.value.warnings) # <<>>

\* an analysed day that counts two transitions
C17_TwoTransitions ==
    /\ IsAnalysis
    /\ Cardinality(ShortBreaks(events, prefs)) = 2

\* an analysed day with a gap of exactly the minimum break, not counted
C17_ExactBreak ==
    /\ IsAnalysis
    /\ \E pr \in AdjacentPairs(events) :
           GapOf(events, pr) = prefs.schedulingRules.minBreakBetweenEvents
    /\ BackToBackWarnings(result.value.warnings) = <<>>

-----------------------------------------------------------------------------
(* The week *)

IsWeek == result.op = "analyzeWeek"

\* light = 1, moderate = 2, heavy = 3, overloaded = 4 for a day's total minutes
ScoreOfMinutes(total) ==
    IF total < 4 * 60 THEN 1 ELSE IF total < 6 * 60 THEN 2 ELSE IF total < 8 * 60 THEN 3 ELSE 4

\* the sum of the scores of the supplied days
ScoreSum(ebd) ==
    LET F[k \in 0..Len(ebd)] ==
            IF k = 0 THEN 0 ELSE F[k - 1] + ScoreOfMinutes(SumOfDurations(ebd[k].events))
    IN  F[Len(ebd)]

\* the band of the average sum / n of n > 0 scores: up to 1.5 light, up to
\* 2.5 moderate, up to 3.5 heavy, above overloaded
BandOfAverage(sum, n) ==
    IF 10 * sum <= 15 * n THEN "light"
    ELSE IF 10 * sum <= 25 * n THEN "moderate"
    ELSE IF 10 * sum <= 35 * n THEN "heavy"
    ELSE "overloaded"

\* a week of one 7-hour day and one 0.5-hour day
SevenHoursAndHalfHour(ebd) ==
    /\ Len(ebd) = 2
    /\ {SumOfDurations(ebd[k].events) : k \in DOMAIN ebd} = {7 * 60, 30}

\* C18: averageDensity is the band of the average of the days' scores
\* (light 1, moderate 2, heavy 3, overloaded 4): <= 1.5 light, <= 2.5
\* moderate, <= 3.5 heavy, otherwise overloaded; light when no day is
\* supplied; moderate for one 7-hour day and one 0.5-hour day.
C18_AverageDensity ==
    IsWeek =>
        /\ result.value.summary.averageDensity
               = IF eventsByDay = <<>> THEN "light"
                 ELSE BandOfAverage(ScoreSum(eventsByDay), Len(eventsByDay))
        /\ SevenHoursAndHalfHour(eventsByDay) =>
               result.value.summary.averageDensity = "moderate"

\* the week of one 7-hour day and one 0.5-hour day, analysed
C18_Witness ==
    /\ IsWeek
    /\ SevenHoursAndHalfHour(eventsByDay)
    /\ result.value.summary.averageDensity = "moderate"

\* an analysed week whose average is exactly 1.5, and one with no day
C18_OnThreshold ==
    /\ IsWeek
    /\ Len(eventsByDay) = 2
    /\ ScoreSum(eventsByDay) = 3
    /\ result.value.summary.averageDensity = "light"

C18_NoDays == IsWeek /\ eventsByDay = <<>> /\ result.value.summary.averageDensity = "light"

\* the sum over the supplied days of the hours (tenths) of an area, each
\* day's hours rounded on their own
WeekTenths(ebd, area) ==
    LET F[k \in 0..Len(ebd)] ==
            IF k = 0 THEN 0 ELSE F[k - 1] + Tenths(BuiltInMinutes(ebd[k].events, area))
    IN  F[Len(ebd)]

EventCount(ebd) ==
    LET F[k \in 0..Len(ebd)] == IF k = 0 THEN 0 ELSE F[k - 1] + Len(ebd[k].events)
    IN  F[Len(ebd)]

-----------------------------------------------------------------------------
(* sortItems *)

IsSorted == result.op = "sortItems"

\* where an item of the output stood in the input
InputPosition(it) == CHOOSE k \in DOMAIN items : items[k] = it

\* the area of the item has an entry in the areaPriority that was passed
IsListed(it) ==
    /\ areaPriority.supplied
    /\ \E k \in DOMAIN areaPriority.table : areaPriority.table[k].area = it.area

AreaRank(it) ==
    IF IsListed(it)
    THEN areaPriority.table[CHOOSE k \in DOMAIN areaPriority.table :
                                areaPriority.table[k].area = it.area].priority
    ELSE 999

SizeRank(it) ==
    CASE it.size = "quick" -> 1
      [] it.size = "long" -> 3
      [] OTHER -> 2

DigitValue(c) == CHOOSE d \in 0..9 : <<"0", "1", "2", "3", "4", "5", "6", "7", "8", "9">>[d + 1] = c

\* the minute of the day a timestamp THH:MMZ names; a missing one comes first
CompletedRank(it) ==
    IF it.completedAt = NoCompletedAt THEN -1
    ELSE LET t == it.completedAt
         IN  60 * (10 * DigitValue(t[2]) + DigitValue(t[3]))
                 + 10 * DigitValue(t[5]) + DigitValue(t[6])

\* C20: sortItems returns a permutation of its input in which every
\* incomplete item precedes every completed item; incomplete items are
\* ordered by area priority (an area missing from areaPriority ranks as 999,
\* after all listed areas) and then by size rank quick < medium < long with a
\* missing size ranked as medium; completed items are ordered ascending by
\* completedAt with a missing completedAt first; items with equal keys keep
\* their original relative order.
C20_SortItems ==
    IsSorted =>
        LET out == result.value
        IN  /\ Len(out) = Len(items)
            /\ SeqRange(out) = SeqRange(items)
            /\ \A i \in DOMAIN out : \A j \in DOMAIN out :
                   i < j =>
                       LET a == out[i]
                           b == out[j]
                       IN  /\ a.completed => b.completed
                           /\ (~a.completed /\ ~b.completed) =>
                                  /\ AreaRank(a) <= AreaRank(b)
                                  /\ IsListed(b) => IsListed(a)
                                  /\ AreaRank(a) = AreaRank(b) => SizeRank(a) <= SizeRank(b)
                                  /\ (AreaRank(a) = AreaRank(b) /\ SizeRank(a) = SizeRank(b))
                                         => InputPosition(a) < InputPosition(b)
                           /\ (a.completed /\ b.completed) =>
                                  /\ CompletedRank(a) <= CompletedRank(b)
                                  /\ CompletedRank(a) = CompletedRank(b)
                                         => InputPosition(a) < InputPosition(b)

\* a sorted list that had a completed item ahead of an incomplete one, an
\* item of an unlisted area ahead of one of a listed area, and an item of no
\* size ahead of a quick one of its area
C20_Witness ==
    /\ IsSorted
    /\ areaPriority.supplied
    /\ \E i \in DOMAIN items : \E j \in DOMAIN items :
           i < j /\ items[i].completed /\ ~items[j].completed
    /\ \E i \in DOMAIN items : \E j \in DOMAIN items :
           /\ i < j
           /\ ~items[i].completed /\ ~items[j].completed
           /\ \/ ~IsListed(items[i]) /\ IsListed(items[j])
              \/ /\ items[i].area = items[j].area
                 /\ items[i].size = NoSize
                 /\ items[j].size = "quick"
    /\ result.value # items

\* two items with equal keys sorted ahead of a third that stood between them
C20_TieKept ==
    /\ IsSorted
    /\ Len(items) = 3
    /\ ~items[1].completed /\ ~items[2].completed /\ ~items[3].completed
    /\ AreaRank(items[1]) = AreaRank(items[3])
    /\ SizeRank(items[1]) = SizeRank(items[3])
    /\ items[1].size # items[3].size
    /\ SizeRank(items[2]) > SizeRank(items[1])
    /\ AreaRank(items[2]) = AreaRank(items[1])
    /\ result.value = <<items[1], items[3], items[2]>>

\* completed items, one with no completedAt, sorted into ascending order
C20_CompletedReordered ==
    /\ IsSorted
    /\ Len(items) = 3
    /\ \A i \in DOMAIN items : items[i].completed
    /\ items[3].completedAt = NoCompletedAt
    /\ CompletedRank(items[1]) > CompletedRank(items[2])
    /\ result.value = <<items[3], items[2], items[1]>>

-----------------------------------------------------------------------------
(* The stored checklists *)

\* the step is a call of the operation, which names the date it was about
IsCallOf(op) == result'.op = op /\ today' = today

Stored(d) == loadChecklist(store, d)
StoredNext(d) == loadChecklist(store', d)

IncompleteOf(checklist) == SelectSeq(checklist.items, LAMBDA i : ~i.completed)

\* the date an item was first listed on, seen from the checklist of date d
LineageOf(item, d) == IF item.carriedFrom # NoDate THEN item.carriedFrom ELSE d

\* item is a copy of the item source of the checklist of date d
IsCopyOf(item, source, d) ==
    /\ item.id # source.id
    /\ item.area = source.area
    /\ item.text = source.text
    /\ item.size = source.size
    /\ item.deadline = source.deadline
    /\ ~item.completed
    /\ item.carriedFrom = LineageOf(source, d)

\* two items of a checklist that have the same copies
Alike(a, b) ==
    /\ a.area = b.area /\ a.text = b.text /\ a.size = b.size
    /\ a.deadline = b.deadline /\ a.carriedFrom = b.carriedFrom

\* the greatest date before d that has a stored checklist
SourceDate(d) ==
    CHOOSE s \in DatePool :
        /\ s < d /\ HasChecklist(store, s)
        /\ \A e \in DatePool : (e < d /\ HasChecklist(store, e)) => e <= s

HasSource(d) == \E s \in DatePool : s < d /\ HasChecklist(store, s)

\* C21: getChecklist(D) for a date with no stored checklist builds one from
\* the stored checklist of the greatest date before D: one copy of each
\* incomplete item of the source and none of a completed one, each with an
\* identifier of its own, the source's deadline and the source's carriedFrom
\* or else the source date; the new checklist is stored at once, also when
\* it is empty or there is no source.
C21_CarryOver ==
    [][(IsCallOf("getChecklist") /\ ~HasChecklist(store, result'.date)) =>
          LET d == result'.date
              new == result'.checklist
          IN  /\ HasChecklist(store', d)
              /\ StoredNext(d) = new
              /\ new.date = d
              /\ IF ~HasSource(d) THEN new.items = <<>>
                 ELSE LET source == Stored(SourceDate(d))
                          incomplete == IncompleteOf(source)
                      IN  /\ Len(new.items) = Len(incomplete)
                          /\ \A k \in DOMAIN new.items :
                                 /\ \E j \in DOMAIN incomplete :
                                        IsCopyOf(new.items[k], incomplete[j], source.date)
                                 /\ \A j \in DOMAIN source.items :
                                        new.items[k].id # source.items[j].id
                          /\ \A j \in DOMAIN incomplete :
                                 Cardinality({k \in DOMAIN new.items :
                                     IsCopyOf(new.items[k], incomplete[j], source.date)})
                                 = Cardinality({i \in DOMAIN incomplete :
                                     Alike(incomplete[i], incomplete[j])})]_vars

\* Tuesday's checklist just built from Monday's, which has a completed item
\* and an incomplete one with a deadline, while Wednesday's was stored before
C21_Witness ==
    /\ result.op = "getChecklist"
    /\ result.date = Tuesday
    /\ HasChecklist(store, Monday) /\ HasChecklist(store, Tuesday)
    /\ HasChecklist(store, Wednesday)
    /\ Stored(Wednesday).items = <<>>
    /\ Len(Stored(Monday).items) = 2
    /\ \E j \in DOMAIN Stored(Monday).items : Stored(Monday).items[j].completed
    /\ Len(Stored(Tuesday).items) = 1
    /\ Stored(Tuesday).items[1].id = uuidCounter
    /\ Stored(Tuesday).items[1].carriedFrom = Monday
    /\ Stored(Tuesday).items[1].deadline = Wednesday

\* C22: an item added on the first day and carried over day after day has
\* carriedFrom equal to the first day in every later checklist, never the
\* date of a day in between; on the first day it has none.
C22_Lineage ==
    \A c \in store.checklists :
        \A k \in DOMAIN c.items :
            c.items[k].carriedFrom = (IF c.date = Monday THEN NoDate ELSE Monday)

\* the third day's checklist holds an item that went through the second day's
C22_Witness ==
    /\ today = Wednesday
    /\ HasChecklist(store, Monday) /\ HasChecklist(store, Tuesday)
    /\ HasChecklist(store, Wednesday)
    /\ \E k \in DOMAIN Stored(Wednesday).items :
           /\ Stored(Wednesday).items[k].carriedFrom = Monday
           /\ \E j \in DOMAIN Stored(Tuesday).items :
                  /\ Stored(Tuesday).items[j].text = Stored(Wednesday).items[k].text
                  /\ Stored(Tuesday).items[j].id < Stored(Wednesday).items[k].id
                  /\ \E i \in DOMAIN Stored(Monday).items :
                         Stored(Monday).items[i].id < Stored(Tuesday).items[j].id

\* C23: after any sequence of getChecklist, addItem, updateItem and
\* removeItem calls from the empty store, with every generated identifier
\* fresh, the items of each stored checklist have pairwise distinct ids.
C23_DistinctIds ==
    \A c \in store.checklists :
        \A i \in DOMAIN c.items : \A j \in DOMAIN c.items :
            c.items[i].id = c.items[j].id => i = j

\* a stored checklist that holds an item carried over and an item added to it
C23_Witness ==
    \E c \in store.checklists :
        /\ Len(c.items) >= 2
        /\ \E i \in DOMAIN c.items : c.items[i].carriedFrom # NoDate
        /\ \E j \in DOMAIN c.items : c.items[j].carriedFrom = NoDate

-----------------------------------------------------------------------------
(* Changing and removing records *)

\* the items of the day's checklist before the call; a day with no checklist
\* and none before it starts with an empty one
ItemsBefore == IF HasChecklist(store, today) THEN Stored(today).items ELSE <<>>
ItemsAfter == StoredNext(today).items

HasId(records, id) == \E k \in DOMAIN records : records[k].id = id
RecordOf(records, id) == records[CHOOSE k \in DOMAIN records : records[k].id = id]

\* the value of a field after an update that may name it
Updated(old, opt) == IF opt = <<>> THEN old ELSE opt[1]

\* every record but the one with the id is in both lists
OthersKept(before, after, id) ==
    /\ \A k \in DOMAIN before : before[k].id # id => before[k] \in SeqRange(after)
    /\ \A k \in DOMAIN after : after[k].id # id => after[k] \in SeqRange(before)

\* C24: updateItem and removeItem with an id no item of the day's checklist
\* has, and updateHabit and removeHabit with an id no stored habit has, fail
\* with a not-found error that names the id; with a matching id they succeed
\* and change that record alone: a removal deletes one record, an update
\* keeps the id and every field it does not name.
C24_NotFoundOrExact ==
    [][/\ IsCallOf("updateItem") =>
              LET id == result'.id
                  u == result'.updates
              IN  IF ~HasId(ItemsBefore, id)
                  THEN result'.error = [message |-> "Checklist item not found", id |-> id]
                  ELSE LET old == RecordOf(ItemsBefore, id)
                           new == RecordOf(ItemsAfter, id)
                       IN  /\ result'.error.message = ""
                           /\ Len(ItemsAfter) = Len(ItemsBefore)
                           /\ OthersKept(ItemsBefore, ItemsAfter, id)
                           /\ HasId(ItemsAfter, id)
                           /\ new.text = Updated(old.text, u.text)
                           /\ new.area = Updated(old.area, u.area)
                           /\ new.size = Updated(old.size, u.size)
                           /\ new.deadline = Updated(old.deadline, u.deadline)
                           /\ new.completed = Updated(old.completed, u.completed)
                           /\ new.carriedFrom = old.carriedFrom
       /\ IsCallOf("removeItem") =>
              LET id == result'.id
              IN  IF ~HasId(ItemsBefore, id)
                  THEN result'.error = [message |-> "Checklist item not found", id |-> id]
                  ELSE /\ result'.error.message = ""
                       /\ Len(ItemsAfter) = Len(ItemsBefore) - 1
                       /\ OthersKept(ItemsBefore, ItemsAfter, id)
                       /\ ~HasId(ItemsAfter, id)
       /\ IsCallOf("updateHabit") =>
              LET id == result'.id
                  u == result'.updates
              IN  IF ~HasId(store.habits, id)
                  THEN /\ result'.error = [message |-> "Habit not found", id |-> id]
                       /\ store'.habits = store.habits
                  ELSE /\ result'.error.message = ""
                       /\ DOMAIN store'.habits = DOMAIN store.habits
                       /\ \A k \in DOMAIN store.habits :
                              LET old == store.habits[k]
                                  new == store'.habits[k]
                              IN  IF old.id # id THEN new = old
                                  ELSE /\ new.id = id
                                       /\ new.name = Updated(old.name, u.name)
                                       /\ new.weeklyTarget = Updated(old.weeklyTarget, u.weeklyTarget)
                                       /\ new.lifeArea = Updated(old.lifeArea, u.lifeArea)
                                       /\ new.defaultDuration
                                              = Updated(old.defaultDuration, u.defaultDuration)
                                       /\ new.preferredTimeOfDay
                                              = Updated(old.preferredTimeOfDay, u.preferredTimeOfDay)
       /\ IsCallOf("removeHabit") =>
              LET id == result'.id
              IN  IF ~HasId(store.habits, id)
                  THEN /\ result'.error = [message |-> "Habit not found", id |-> id]
                       /\ store'.habits = store.habits
                  ELSE /\ result'.error.message = ""
                       /\ Len(store'.habits) = Len(store.habits) - 1
                       /\ OthersKept(store.habits, store'.habits, id)
                       /\ ~HasId(store'.habits, id)]_vars

\* removeItem has failed on an id that a habit has and no item of the day's
\* checklist, which holds an item
C24_Witness ==
    /\ result.op = "removeItem"
    /\ result.error.message = "Checklist item not found"
    /\ result.error.id = result.id
    /\ HasChecklist(store, today)
    /\ Stored(today).items # <<>>
    /\ ~HasId(Stored(today).items, result.id)
    /\ HasId(store.habits, result.id)

\* one of two habits has been renamed; one of two items has been removed
C24_HabitUpdated ==
    /\ result.op = "updateHabit"
    /\ result.error.message = ""
    /\ Len(store.habits) = 2
    /\ RecordOf(store.habits, result.id).name = "Read"
    /\ \E k \in DOMAIN store.habits : store.habits[k].name = "Run"

C24_ItemRemoved ==
    /\ result.op = "removeItem"
    /\ result.error.message = ""
    /\ HasChecklist(store, today)
    /\ Len(Stored(today).items) = 1
    /\ Stored(today).items[1].id > result.id

C24_HabitNotFound ==
    /\ result.op = "updateHabit"
    /\ result.error.message = "Habit not found"
    /\ store.habits # <<>>

-----------------------------------------------------------------------------
(* Completion, failure and the other days *)

\* C27: after any sequence of getChecklist, addItem, updateItem and
\* removeItem calls from the empty store, every stored item has completedAt
\* set exactly when completed is true; an item that has a carriedFrom or was
\* just added and is incomplete has none.
C27_CompletedAtIffCompleted ==
    \A c \in store.checklists :
        \A k \in DOMAIN c.items :
            /\ c.items[k].completed \in BOOLEAN
            /\ c.items[k].completed <=> (c.items[k].completedAt # NoCompletedAt)
            /\ c.items[k].completed => c.items[k].completedAt \in StampPool

\* an update with completed false has left, on the second day, a carried
\* item incomplete next to a completed one
C27_Witness ==
    /\ result.op = "updateItem"
    /\ result.error.message = ""
    /\ result.updates.completed = <<FALSE>>
    /\ today = Tuesday
    /\ HasChecklist(store, Tuesday)
    /\ \E k \in DOMAIN Stored(Tuesday).items :
           /\ Stored(Tuesday).items[k].id = result.id
           /\ Stored(Tuesday).items[k].carriedFrom = Monday
           /\ Stored(Tuesday).items[k].completedAt = NoCompletedAt
    /\ \E k \in DOMAIN Stored(Tuesday).items :
           /\ Stored(Tuesday).items[k].completed
           /\ Stored(Tuesday).items[k].completedAt = Stamp1000

\* the step is an updateItem or a removeItem that raised not-found
FailedMutation ==
    /\ IsCallOf("updateItem") \/ IsCallOf("removeItem")
    /\ result'.error.message = "Checklist item not found"

\* C28 as stated: when updateItem or removeItem raises not-found, the
\* storage is exactly as it was before the call.
C28_FailureChangesNothing == [][FailedMutation => store' = store]_vars

\* C28: when updateItem or removeItem raises not-found, the storage is as
\* it was before the call, except that a current day without a checklist
\* has got the one a first read gives it: empty, or the copies of the
\* incomplete items of the most recent earlier checklist.
C28_FailureOnlyCreatesToday ==
    [][FailedMutation =>
          IF HasChecklist(store, today) THEN store' = store
          ELSE /\ store'.habits = store.habits
               /\ store.checklists \subseteq store'.checklists
               /\ \A c \in store'.checklists : c \in store.checklists \/ c.date = today
               /\ HasChecklist(store', today)
               /\ LET new == StoredNext(today)
                  IN  IF ~HasSource(today) THEN new.items = <<>>
                      ELSE LET source == Stored(SourceDate(today))
                               incomplete == IncompleteOf(source)
                           IN  /\ Len(new.items) = Len(incomplete)
                               /\ \A k \in DOMAIN new.items :
                                      \E j \in DOMAIN incomplete :
                                          IsCopyOf(new.items[k], incomplete[j], source.date)]_vars

\* a call has failed on the second day, whose checklist holds nothing but
\* the copy of the first day's item, made after every other identifier
C28_Witness ==
    /\ result.op \in {"updateItem", "removeItem"}
    /\ result.error.message = "Checklist item not found"
    /\ today = Tuesday
    /\ HasChecklist(store, Monday) /\ HasChecklist(store, Tuesday)
    /\ Len(Stored(Monday).items) = 1
    /\ Len(Stored(Tuesday).items) = 1
    /\ Stored(Tuesday).items[1].carriedFrom = Monday
    /\ Stored(Tuesday).items[1].id = uuidCounter
    /\ result.id # uuidCounter
    /\ result.checklist = Stored(Tuesday)

\* C29: no call deletes a day's checklist; addItem, updateItem and
\* removeItem change no checklist but the current day's, and getChecklist(D)
\* writes no checklist but that of D, so the source of a carry-over stays as
\* it was.
C29_OtherDaysKept ==
    [][/\ \A d \in DatePool : HasChecklist(store, d) => HasChecklist(store', d)
       /\ \A c \in store'.checklists : c.date \in DatePool
       /\ (IsCallOf("addItem") \/ IsCallOf("updateItem") \/ IsCallOf("removeItem")) =>
              \A d \in DatePool \ {today} :
                  /\ HasChecklist(store', d) => HasChecklist(store, d)
                  /\ HasChecklist(store, d) => StoredNext(d) = Stored(d)
       /\ IsCallOf("getChecklist") =>
              \A d \in DatePool \ {result'.date} :
                  /\ HasChecklist(store', d) => HasChecklist(store, d)
                  /\ HasChecklist(store, d) => StoredNext(d) = Stored(d)]_vars

\* Wednesday's checklist has been built from Tuesday's, which still has its
\* completed item and its incomplete one, while Monday's is there too
C29_Witness ==
    /\ result.op = "getChecklist"
    /\ result.date = Wednesday
    /\ HasChecklist(store, Monday) /\ HasChecklist(store, Tuesday)
    /\ HasChecklist(store, Wednesday)
    /\ Len(Stored(Tuesday).items) = 2
    /\ \E k \in DOMAIN Stored(Tuesday).items : Stored(Tuesday).items[k].completed
    /\ Len(Stored(Wednesday).items) = 1
    /\ Stored(Wednesday).items[1].id = uuidCounter
    /\ \E k \in DOMAIN Stored(Tuesday).items :
           /\ ~Stored(Tuesday).items[k].completed
           /\ Stored(Tuesday).items[k].id < uuidCounter
           /\ Stored(Tuesday).items[k].text = Stored(Wednesday).items[1].text

\* C30: getChecklist(D) for a date with a stored checklist returns the
\* stored items of D re-sorted and writes nothing: the checklist of D is as
\* it was whatever has been done since to the checklists of earlier dates.
C30_NoSecondCarryOver ==
    [][(IsCallOf("getChecklist") /\ HasChecklist(store, result'.date)) =>
          /\ store' = store
          /\ uuidCounter' = uuidCounter
          /\ result'.checklist.date = result'.date
          /\ result'.checklist.items
                 = sortItems(Stored(result'.date).items, getAreaPriority(prefs))
          /\ Len(result'.checklist.items) = Len(Stored(result'.date).items)
          /\ SeqRange(result'.checklist.items) = SeqRange(Stored(result'.date).items)]_vars

\* Wednesday's checklist, read again, is still empty though Monday's, the
\* only earlier one, has an incomplete item and a completed one by now
C30_Witness ==
    /\ result.op = "getChecklist"
    /\ result.date = Wednesday
    /\ HasChecklist(store, Monday) /\ ~HasChecklist(store, Tuesday)
    /\ HasChecklist(store, Wednesday)
    /\ Stored(Wednesday).items = <<>>
    /\ Len(Stored(Monday).items) = 2
    /\ \E k \in DOMAIN Stored(Monday).items : Stored(Monday).items[k].completed
    /\ \E k \in DOMAIN Stored(Monday).items : ~Stored(Monday).items[k].completed

-----------------------------------------------------------------------------
(* Calls in flight: addItem, updateItem and removeItem give way to other   *)
(* calls at each await, between reading the day's file and writing it.     *)
(* The steps of getChecklist are taken as one.                             *)

MaxCalls == 2

\* the arguments of a call that is not an addItem
NoArgs == <<"", "", NoSize, NoDate>>

\* the calls that can begin
RaceCallPool ==
    {[op |-> "addItem", id |-> 0, updates |-> NoUpdates, args |-> t] : t \in TaskPool}
    \cup {[op |-> "updateItem", id |-> i,
           updates |-> [NoUpdates EXCEPT !.completed = Set(TRUE)], args |-> NoArgs] : i \in 1..2}
    \cup {[op |-> "removeItem", id |-> i, updates |-> NoUpdates, args |-> NoArgs] : i \in 1..2}

\* a call that holds the checklist it has read
CallInFlight(c, checklist) ==
    [op |-> c.op, id |-> c.id, updates |-> c.updates, args |-> c.args, checklist |-> checklist]

FinishedCallReloading(st, ctr, p, call, stamp) ==
    LET current == getChecklist(st, ctr, p, call.checklist.date).checklist
        outcome ==
            CASE call.op = "addItem" ->
                     [error |-> NoError,
                      checklist |-> [current EXCEPT !.items = sortItems(
                          Append(@, ChecklistItem(ctr + 1, call.args[2], call.args[1],
                                                  call.args[3], call.args[4])),
                          getAreaPriority(p))]]
              [] call.op = "updateItem" ->
                     UpdatedChecklist(current, p, call.id, call.updates, stamp)
              [] OTHER -> RemovedChecklist(current, call.id)
    IN  [store |-> IF outcome.error = NoError
                   THEN saveChecklist(st, outcome.checklist) ELSE st,
         uuidCounter |-> IF call.op = "addItem" THEN ctr + 1 ELSE ctr,
         error |-> outcome.error,
         checklist |-> outcome.checklist]

\* the rest of a call after its await getChecklist(): the change is made to
\* the checklist the call holds, which is then saved
FinishedCall(st, ctr, p, call, stamp) ==
    LET outcome ==
            CASE call.op = "addItem" ->
                     [error |-> NoError,
                      checklist |-> [call.checklist EXCEPT !.items = sortItems(
                          Append(@, ChecklistItem(ctr + 1, call.args[2], call.args[1],
                                                  call.args[3], call.args[4])),
                          getAreaPriority(p))]]
              [] call.op = "updateItem" ->
                     UpdatedChecklist(call.checklist, p, call.id, call.updates, stamp)
              [] OTHER -> RemovedChecklist(call.checklist, call.id)
    IN  [store |-> IF outcome.error = NoError
                   THEN saveChecklist(st, outcome.checklist) ELSE st,
         uuidCounter |-> IF call.op = "addItem" THEN ctr + 1 ELSE ctr,
         error |-> outcome.error,
         checklist |-> outcome.checklist]

\* a call begins and runs up to the return of its getChecklist()
CallBegins(c) ==
    LET got == getChecklist(store, uuidCounter, prefs, today)
    IN  /\ Len(calls) < MaxCalls
        /\ got.uuidCounter <= MaxUuid
        /\ store' = got.store
        /\ uuidCounter' = got.uuidCounter
        /\ calls' = Append(calls, CallInFlight(c, got.checklist))
        /\ UNCHANGED <<events, prefs, date, eventsByDay, items, areaPriority, today, result>>

\* the k-th call in flight runs to its end
CallFinishes(k, stamp) ==
    LET finished == FinishedCall(store, uuidCounter, prefs, calls[k], stamp)
    IN  /\ finished.uuidCounter <= MaxUuid
        /\ store' = finished.store
        /\ uuidCounter' = finished.uuidCounter
        /\ calls' = Splice(calls, k)
        /\ result' = [op |-> calls[k].op, date |-> today, id |-> calls[k].id,
                      updates |-> calls[k].updates, error |-> finished.error,
                      checklist |-> finished.checklist]
        /\ UNCHANGED <<events, prefs, date, eventsByDay, items, areaPriority, today>>

NextRace ==
    \/ \E c \in RaceCallPool : CallBegins(c)
    \/ \E k \in DOMAIN calls : \E stamp \in StampPool : CallFinishes(k, stamp)

SpecRace == InitStore /\ [][NextRace]_vars

\* the step is the end of the k-th call in flight
IsEndOf(k) == k \in DOMAIN calls /\ Len(calls') = Len(calls) - 1 /\ calls' = Splice(calls, k)

\* C25: nothing keeps a call from working on a checklist that another call
\* has rewritten since it was read: a call whose id is in the checklist it
\* read succeeds, and the checklist stored when it ends is the one it read
\* with its own change, so that what was written in between is lost.
C25_LastWriteWins ==
    [][\A k \in DOMAIN calls : IsEndOf(k) =>
          LET read == calls[k].checklist.items
              id == calls[k].id
          IN  CASE calls[k].op = "addItem" ->
                       /\ result'.error.message = ""
                       /\ Len(ItemsAfter) = Len(read) + 1
                       /\ OthersKept(read, ItemsAfter, uuidCounter')
                       /\ HasId(ItemsAfter, uuidCounter')
                       /\ ~HasId(read, uuidCounter')
                [] ~HasId(read, id) ->
                       /\ result'.error = [message |-> "Checklist item not found", id |-> id]
                       /\ store' = store
                [] calls[k].op = "updateItem" ->
                       /\ result'.error.message = ""
                       /\ Len(ItemsAfter) = Len(read)
                       /\ OthersKept(read, ItemsAfter, id)
                       /\ HasId(ItemsAfter, id)
                       /\ RecordOf(ItemsAfter, id).completed
                [] OTHER ->
                       /\ result'.error.message = ""
                       /\ Len(ItemsAfter) = Len(read) - 1
                       /\ OthersKept(read, ItemsAfter, id)
                       /\ ~HasId(ItemsAfter, id)]_vars

\* two addItem calls read the empty checklist, each made an item, and the
\* checklist holds the second item alone
C25_Witness ==
    /\ result.op = "addItem"
    /\ result.error.message = ""
    /\ calls = <<>>
    /\ uuidCounter = 2
    /\ HasChecklist(store, today)
    /\ Len(Stored(today).items) = 1
    /\ Stored(today).items[1].id = 2
    /\ result.checklist = Stored(today)

\* a removal has ended well though the item had been removed already, and
\* has taken back the completion written by another call
C25_CompletionLost ==
    /\ result.op = "removeItem"
    /\ result.error.message = ""
    /\ result.id = 1
    /\ calls = <<>>
    /\ uuidCounter = 2
    /\ HasChecklist(store, today)
    /\ Len(Stored(today).items) = 1
    /\ Stored(today).items[1].id = 2
    /\ ~Stored(today).items[1].completed

-----------------------------------------------------------------------------
(* Updating the preferences and the profile *)

\* preferences.json as set up from the example file, in short
ExamplePreferences ==
    Obj([energyPatterns |-> Obj([highEnergy |-> Arr(<<Str("09:00-12:00")>>),
                                 lowEnergy |-> Arr(<<Str("14:00-15:00")>>)]),
         lifeAreas |-> Arr(<<Str("work"), Str("fitness")>>),
         schedulingRules |-> Obj([maxMeetingsPerDay |-> Num(5),
                                  protectedBlocks |-> Arr(<<Str("lunch")>>)])])

\* arguments of preferences_update
PreferencesUpdatesPool ==
    { Obj([schedulingRules |-> Obj([maxMeetingsPerDay |-> Num(3)])]),
      Obj([schedulingRules |-> Obj([minBreakBetweenEvents |-> Num(0),
                                    protectedBlocks |-> Arr(<<>>)])]),
      Obj([energyPatterns |-> Obj([highEnergy |-> Arr(<<Str("08:00-11:00"),
                                                        Str("16:00-17:00")>>)])]),
      Obj([lifeAreas |-> Arr(<<Str("family")>>)]),
      Obj([categoryKeywords |-> Obj([work |-> Arr(<<Str("standup")>>)])]),
      Obj([categoryKeywords |-> Obj([fitness |-> Arr(<<Str("run")>>)])]) }

\* arguments of profile_update
ProfileUpdatesPool ==
    { Obj([name |-> Str("Ada")]),
      Obj([goals |-> Arr(<<Str("Ship v1")>>)]),
      Obj([planningCadence |-> Obj([weeklyPlanningTime |-> Str("Sunday 7pm")])]) }

\* what new Date().toISOString() gives, in the order of time
ClockPool == <<"2025-06-10T09:30:00.000Z", "2025-06-10T10:00:00.000Z">>

ClockIndex(t) == CHOOSE i \in DOMAIN ClockPool : ClockPool[i] = t

\* the times not before the last update of the stored profile
TimesFrom(profile) ==
    {ClockPool[i] : i \in {j \in DOMAIN ClockPool :
        profile = Null \/ ClockIndex(profile.fields.updatedAt.text) <= j}}

InitMerge ==
    /\ events = <<>>
    /\ eventsByDay = <<>>
    /\ prefs = Prefs(BaseMaxMeetings)
    /\ date = Monday
    /\ items = <<>>
    /\ areaPriority = NoAreaPriority
    /\ store = [EmptyStore EXCEPT !.preferences = ExamplePreferences]
    /\ today = Monday
    /\ uuidCounter = 0
    /\ calls = NoCalls
    /\ result = NoResult

\* preferences_update
PreferencesUpdate(updates) ==
    LET merged == preferencesUpdate(store.preferences, updates)
    IN  /\ store' = [store EXCEPT !.preferences = merged]
        /\ result' = [op |-> "preferences_update", updates |-> updates, now |-> "",
                      merged |-> merged]
        /\ UNCHANGED <<events, prefs, date, eventsByDay, items, areaPriority, today, uuidCounter, calls>>

\* profile_update
ProfileUpdate(updates, now) ==
    LET merged == profileUpdate(store.profile, updates, now)
    IN  /\ store' = [store EXCEPT !.profile = merged]
        /\ result' = [op |-> "profile_update", updates |-> updates, now |-> now,
                      merged |-> merged]
        /\ UNCHANGED <<events, prefs, date, eventsByDay, items, areaPriority, today, uuidCounter, calls>>

NextMerge ==
    \/ \E updates \in PreferencesUpdatesPool : PreferencesUpdate(updates)
    \/ \E updates \in ProfileUpdatesPool : \E now \in TimesFrom(store.profile) :
           ProfileUpdate(updates, now)

SpecMerge == InitMerge /\ [][NextMerge]_vars

\* after has the keys of before and of update: a key update lacks has the
\* value of before; a key whose values in before and update are plain
\* objects has their merge; any other key has the value of update
RECURSIVE IsMergeOf(_, _, _)
IsMergeOf(after, before, update) ==
    /\ DOMAIN after = DOMAIN before \cup DOMAIN update
    /\ \A key \in DOMAIN after :
           IF key \notin DOMAIN update THEN after[key] = before[key]
           ELSE IF /\ key \in DOMAIN before
                   /\ before[key].kind = "object"
                   /\ update[key].kind = "object"
                THEN /\ after[key].kind = "object"
                     /\ IsMergeOf(after[key].fields, before[key].fields, update[key].fields)
                ELSE after[key] = update[key]

\* the record a profile update starts from
ProfileBefore == IF store.profile = Null THEN NewProfile(result'.now) ELSE store.profile

\* the keys of a profile that the caller's update cannot name
Stamps == {"createdAt", "updatedAt"}
WithoutStamps(fields) == [key \in DOMAIN fields \ Stamps |-> fields[key]]

PreferencesMerged ==
    IsCallOf("preferences_update") =>
        /\ store'.preferences = result'.merged
        /\ IsMergeOf(store'.preferences.fields, store.preferences.fields, result'.updates.fields)
        /\ preferencesUpdate(store'.preferences, result'.updates) = store'.preferences

\* C26 as stated: the record after a preferences or profile update is the
\* deep merge of the update into the stored record, and the same update
\* applied once more gives the same record.
C26_DeepMergeOfRecord ==
    [][/\ PreferencesMerged
       /\ IsCallOf("profile_update") =>
              /\ store'.profile = result'.merged
              /\ IsMergeOf(store'.profile.fields, ProfileBefore.fields, result'.updates.fields)
              /\ \A later \in TimesFrom(store'.profile) :
                     profileUpdate(store'.profile, result'.updates, later) = store'.profile]_vars

\* C26: the record after a preferences or profile update is the deep merge
\* of the update into the stored record, but for the stamps of a profile:
\* updatedAt is the time of the call, and createdAt too when it was empty;
\* the same update applied once more gives the same record but for updatedAt.
C26_DeepMergeAndStamps ==
    [][/\ PreferencesMerged
       /\ IsCallOf("profile_update") =>
              LET after == store'.profile.fields
                  before == ProfileBefore.fields
              IN  /\ store'.profile = result'.merged
                  /\ IsMergeOf(WithoutStamps(after), WithoutStamps(before),
                               result'.updates.fields)
                  /\ after.updatedAt = Str(result'.now)
                  /\ after.createdAt = (IF before.createdAt = Str("") THEN Str(result'.now)
                                         ELSE before.createdAt)
                  /\ \A later \in TimesFrom(store'.profile) :
                         LET again == profileUpdate(store'.profile, result'.updates, later).fields
                         IN  /\ WithoutStamps(again) = WithoutStamps(after)
                             /\ again.createdAt = after.createdAt
                             /\ again.updatedAt = Str(later)]_vars

\* a preferences update has changed one key of schedulingRules and kept the
\* others, of which one array was emptied and one was never stored at first;
\* the profile was updated at two times
C26_Witness ==
    /\ result.op = "preferences_update"
    /\ result.updates = Obj([schedulingRules |-> Obj([maxMeetingsPerDay |-> Num(3)])])
    /\ store.preferences.fields.schedulingRules
           = Obj([maxMeetingsPerDay |-> Num(3), minBreakBetweenEvents |-> Num(0),
                  protectedBlocks |-> Arr(<<>>)])
    /\ Len(store.preferences.fields.energyPatterns.fields.highEnergy.elems) = 2
    /\ store.preferences.fields.energyPatterns.fields.lowEnergy = Arr(<<Str("14:00-15:00")>>)
    /\ "categoryKeywords" \in DOMAIN store.preferences.fields
    /\ DOMAIN store.preferences.fields.categoryKeywords.fields = {"work", "fitness"}
    /\ store.profile # Null
    /\ store.profile.fields.createdAt # store.profile.fields.updatedAt
    /\ store.profile.fields.planningCadence.fields.weeklyPlanningTime = Str("Sunday 7pm")
    /\ store.profile.fields.planningCadence.fields.dailyCheckinTime = Str("")

====
